---- MODULE Spec2Model ----
(***************************************************************************)
(* A state-machine model of the AgroLink backend: the relational store,    *)
(* the role-gating decorators, the cart, checkout, payment, delivery and   *)
(* socket handlers.  Every HTTP handler is one atomic action (one request  *)
(* runs inside one database transaction); a handler that returns early or  *)
(* rolls back leaves the store unchanged and only sets the response.       *)
(*                                                                         *)
(* Money is counted in hundredths (NUMERIC(12,2)), weight in whole units.  *)
(* Timestamps are left out: the only queries that order by one             *)
(* (assigned_at, created_at) are modelled by row order.                    *)
(***************************************************************************)
EXTENDS Integers, Sequences, FiniteSets, TLC

VARIABLES
    users,                \* users table: id -> [exists, role, is_verified]
    products,             \* products table: id -> [farmer_id, price, quantity, weight_per_unit, is_available]
    carts,                \* carts + cart_items: buyer id -> [exists, items]
    orders,               \* orders table, row i has id i
    order_items,          \* order_items table
    payments,             \* payments table, row i has id i
    mpesa_callbacks,      \* mpesa_callbacks audit table
    delivery_assignments, \* delivery_assignments table
    delivery_agents,      \* delivery_agents profiles: user id -> "none" | "available" | "unavailable"
    delivery_groups,      \* delivery_groups table, row i has id i
    active_users,         \* socket presence table: sid -> [connected, user_id, user_role]
    last,                 \* the last request handled: [op, sub, status]
    credentials,          \* users table, login columns: id -> [email, password_hash]
    email_verification_tokens, \* email_verification_tokens table: rows [user_id, token, expires_at]
    tokens_issued,        \* how many uuid4 token strings have been drawn
    now,                  \* the clock, in hours
    message_rooms,        \* message_rooms table, row i has id i: [order_id]
    room_participants,    \* room_participants table: rows [room_id, user_id]
    messages,             \* messages table: rows [room_id, sender_id, content]
    emitted,              \* the last socket event emitted: [event, room_id]
    in_flight,            \* checkouts between their stock check and their commit: buyer id -> [active, ...]
    product_images,       \* product_images table, row i has id i: [product_id, is_primary]
    locations,            \* locations rows of the agents' current position: user id -> "none" | [latitude, longitude]
    joined_rooms,         \* the socket rooms of the connections: pairs <<sid, room id>>
    initiating,           \* initiate-payment requests between their pending check and their commit: [request, sub, order_id]
    joining               \* join_chat handlers between their room lookup and their commit: [sid, order_id, other_user_id, room]

db == <<users, products, carts, orders, order_items, payments, mpesa_callbacks,
        delivery_assignments, delivery_agents, delivery_groups>>
identity == <<credentials, email_verification_tokens, tokens_issued, now>>
chat == <<message_rooms, room_participants, messages, emitted>>
vars == <<users, products, carts, orders, order_items, payments, mpesa_callbacks,
          delivery_assignments, delivery_agents, delivery_groups, active_users, last,
          identity, chat, in_flight, product_images, locations, joined_rooms, initiating, joining>>

-----------------------------------------------------------------------------
(* Bounds of the model *)

MaxOrders == 2
MaxStock == 2
MaxPayments == 2
MaxGroups == 1
MaxCallbacks == 2
MaxTokens == 3
ClockStep == 24
MaxClock == 48
MaxRooms == 2
MaxMessages == 1
MaxProducts == 3
MaxImages == 3
MaxCartQuantity == 2

-----------------------------------------------------------------------------
(* Enumerations, models.py *)

RoleName == {"farmer", "buyer", "delivery_agent", "superadmin"}
PaymentStatus == {"pending", "initiated", "paid", "failed", "refunded"}
OrderDeliveryStatus == {"processing", "assigned", "out_for_delivery", "delivered", "cancelled", "returned"}
OrderStatus == {"draft", "placed", "cancelled", "completed"}
DeliveryAssignmentStatus == {"assigned", "picked_up", "in_transit", "delivered", "failed"}

(* The seeded population.  Bearer tokens never expire, so a token's subject *)
(* may name an unverified account or a user id with no row.                *)
Buyer1 == 1
Buyer2 == 2
Farmer1 == 3
Farmer2 == 4
Agent1 == 5
Agent2 == 6
Admin == 7
Unverified == 8
Ghost == 9
None == 0

NewUserIds == {Ghost + 1, Ghost + 2}      \* the ids Register hands out
UserIds == Buyer1..(Ghost + 2)
ProductIds == {1, 2}
MissingProduct == 3
LocationIds == {1}

SeedUsers ==
    [u \in UserIds |->
        [exists |-> u < Ghost,
         role |-> CASE u \in {Buyer1, Buyer2, Unverified} -> "buyer"
                    [] u \in {Farmer1, Farmer2} -> "farmer"
                    [] u \in {Agent1, Agent2} -> "delivery_agent"
                    [] OTHER -> "superadmin",
         is_verified |-> u # Unverified]]

(* login columns: the seeded accounts have lower-case emails, one each *)
Digit == <<"1", "2", "3", "4", "5", "6", "7", "8", "9", "10", "11">>
GoodPassword == <<"p", "a", "s", "s", "w", "o", "r", "d">>
SeedCredentials ==
    [u \in UserIds |->
        IF u < Ghost THEN [email |-> <<"s", Digit[u]>>, password_hash |-> GoodPassword]
        ELSE [email |-> <<>>, password_hash |-> <<>>]]

SeedProducts ==
    [p \in ProductIds |->
        [farmer_id |-> IF p = 1 THEN Farmer1 ELSE Farmer2,
         price |-> IF p = 1 THEN 12000 ELSE 2500,
         quantity |-> MaxStock,
         weight_per_unit |-> IF p = 1 THEN 10 ELSE 11,
         is_available |-> TRUE]]

-----------------------------------------------------------------------------
(* Responses *)

Answer(op, sub, status) == last' = [op |-> op, sub |-> sub, status |-> status]

(* the answer of a handler that writes to none of the chat tables and is   *)
(* one transaction                                                         *)
Reply(op, sub, status) == Answer(op, sub, status) /\ UNCHANGED <<chat, in_flight, product_images, locations, joined_rooms, initiating, joining>>

(* the answer of a handler that writes to none of the identity tables *)
Respond(op, sub, status) == Reply(op, sub, status) /\ UNCHANGED identity

Reject(op, sub, status) == Respond(op, sub, status) /\ UNCHANGED <<db, active_users>>

-----------------------------------------------------------------------------
(* utils/auth.py: the decorators.  The result is the status the decorator   *)
(* answers with, or 200 when it calls the wrapped handler.                  *)

(* the verified flag is not looked at *)
role_required_any_account(sub, allowed_roles) ==
    IF ~users[sub].exists THEN 404
    ELSE IF users[sub].role \notin allowed_roles THEN 403
    ELSE 200

role_required(sub, allowed_roles) ==
    IF ~users[sub].exists THEN 404
    ELSE IF ~users[sub].is_verified THEN 403
    ELSE IF users[sub].role \notin allowed_roles THEN 403
    ELSE 200

any_authenticated_user(sub) ==
    IF ~users[sub].exists THEN 404
    ELSE IF ~users[sub].is_verified THEN 403
    ELSE 200

farmer_required(sub) == role_required(sub, {"farmer"})
buyer_required(sub) == role_required(sub, {"buyer"})
delivery_agent_required(sub) == role_required(sub, {"delivery_agent"})
admin_required(sub) == role_required(sub, {"superadmin"})

get_role_name(u) == users[u].role

-----------------------------------------------------------------------------
(* JSON scalars that Python's int() is applied to: an integer, a numeric    *)
(* string, or a string that is no number.                                   *)

JInt(n) == [k |-> "int", v |-> n]
JStr(n) == [k |-> "numstr", v |-> n]
JBad == [k |-> "bad", v |-> 0]
JNone == [k |-> "none", v |-> 0]

int_ok(x) == x.k \in {"int", "numstr"}
int_of(x) == x.v

-----------------------------------------------------------------------------
(* resources/cart.py *)

RECURSIVE normalise_from(_, _)
normalise_from(raw_items, i) ==
    IF i > Len(raw_items) THEN [error |-> "none", items |-> <<>>]
    ELSE LET item == raw_items[i] IN
         IF ~int_ok(item.product_id) \/ ~int_ok(item.quantity)
         THEN [error |-> "ValueError", items |-> <<>>]
         ELSE LET product_id == int_of(item.product_id)
                  quantity == int_of(item.quantity)
                  rest == normalise_from(raw_items, i + 1)
              IN IF quantity <= 0 THEN rest
                 ELSE IF product_id \notin DOMAIN products
                 THEN [error |-> "LookupError", items |-> <<>>]
                 ELSE IF ~products[product_id].is_available
                         \/ products[product_id].quantity < quantity
                 THEN [error |-> "ValueError", items |-> <<>>]
                 ELSE IF rest.error # "none" THEN rest
                 ELSE [error |-> "none",
                       items |-> <<[product_id |-> product_id, quantity |-> quantity]>>
                                 \o rest.items]

(* the stock and availability test left out *)
normalise_items_any_stock(raw_items) ==
    LET checked == normalise_from(raw_items, 1)
        wanted == SelectSeq(raw_items, LAMBDA e : int_ok(e.product_id) /\ int_ok(e.quantity)
                                                   /\ int_of(e.quantity) > 0)
    IN IF checked.error = "ValueError" /\ \A i \in 1..Len(raw_items) :
                                             int_ok(raw_items[i].product_id) /\ int_ok(raw_items[i].quantity)
       THEN [error |-> "none",
             items |-> [i \in 1..Len(wanted) |->
                           [product_id |-> int_of(wanted[i].product_id),
                            quantity |-> int_of(wanted[i].quantity)]]]
       ELSE checked

normalise_items(raw_items) == normalise_from(raw_items, 1)

(* UniqueConstraint('cart_id', 'product_id') on cart_items *)
unique_cart_product(items) ==
    \A i, j \in 1..Len(items) : items[i].product_id = items[j].product_id => i = j

CartResource_put(sub, raw_items) ==
    LET auth == buyer_required(sub) IN
    IF auth # 200 THEN Reject("replace_cart", sub, auth)
    ELSE LET normalised == normalise_items(raw_items) IN
         IF normalised.error = "LookupError" THEN Reject("replace_cart", sub, 404)
         ELSE IF normalised.error = "ValueError" THEN Reject("replace_cart", sub, 400)
         ELSE IF ~unique_cart_product(normalised.items)
         THEN Reject("replace_cart", sub, 500)   \* IntegrityError at commit, caught by the decorator
         ELSE /\ carts' = [carts EXCEPT ![sub] = [exists |-> TRUE, items |-> normalised.items]]
              /\ Respond("replace_cart", sub, 200)
              /\ UNCHANGED <<users, products, orders, order_items, payments, mpesa_callbacks,
                             delivery_assignments, delivery_agents, delivery_groups, active_users>>

-----------------------------------------------------------------------------
(* app.py: add_to_cart.  product_id is None when the request has none;     *)
(* quantity is the integer of the request (1 when absent).  app.py never    *)
(* imports Product, Cart or CartItem: the NameError of the file as it       *)
(* stands (500) and the body as written are both kept.                      *)

(* a second row for the product *)
with_item_appended(items, product_id, quantity) ==
    Append(items, [product_id |-> product_id, quantity |-> quantity])

(* cart_item.quantity += quantity on the product's row, or a new row *)
with_item(items, product_id, quantity) ==
    IF \E i \in DOMAIN items : items[i].product_id = product_id
    THEN [i \in DOMAIN items |->
             IF items[i].product_id = product_id
             THEN [items[i] EXCEPT !.quantity = @ + quantity]
             ELSE items[i]]
    ELSE Append(items, [product_id |-> product_id, quantity |-> quantity])

add_to_cart(sub, product_id, quantity) ==
    LET auth == buyer_required(sub) IN
    IF auth # 200 THEN Reject("add_to_cart", sub, auth)
    ELSE IF product_id = None THEN Reject("add_to_cart", sub, 400)
    ELSE \/ Reject("add_to_cart", sub, 500)
         \/ IF product_id \notin DOMAIN products THEN Reject("add_to_cart", sub, 404)
            ELSE IF ~products[product_id].is_available \/ products[product_id].quantity < quantity
            THEN Reject("add_to_cart", sub, 400)
            ELSE LET items == with_item(carts[sub].items, product_id, quantity) IN
                 IF \E i \in DOMAIN items : items[i].quantity <= 0
                 THEN Reject("add_to_cart", sub, 500)   \* check_cart_quantity_positive
                 ELSE IF ~unique_cart_product(items)
                 THEN Reject("add_to_cart", sub, 500)   \* unique_cart_product
                 ELSE /\ \A i \in DOMAIN items : items[i].quantity <= MaxCartQuantity
                      /\ carts' = [carts EXCEPT ![sub] = [exists |-> TRUE, items |-> items]]
                      /\ Respond("add_to_cart", sub, 201)
                      /\ UNCHANGED <<users, products, orders, order_items, payments, mpesa_callbacks,
                                     delivery_assignments, delivery_agents, delivery_groups,
                                     active_users>>

-----------------------------------------------------------------------------
(* The other cart routes.  A cart_items row is named by the pair of the    *)
(* buyer whose cart holds it and its product (item_id == <<owner,          *)
(* product_id>>): unique_cart_product makes the pair a key.  carts.buyer_id *)
(* is unique (models.py), so a buyer's cart is one record.                  *)

(* resources/cart.py: GET /api/cart creates the cart when there is none *)
CartResource_get(sub) ==
    LET auth == buyer_required(sub) IN
    IF auth # 200 THEN Reject("get_cart", sub, auth)
    ELSE /\ carts' = [carts EXCEPT ![sub].exists = TRUE]
         /\ Respond("get_cart", sub, 200)
         /\ UNCHANGED <<users, products, orders, order_items, payments, mpesa_callbacks,
                        delivery_assignments, delivery_agents, delivery_groups, active_users>>

(* app.py: GET /cart only reads *)
get_cart(sub) ==
    LET auth == buyer_required(sub) IN
    IF auth # 200 THEN Reject("read_cart", sub, auth)
    ELSE \/ Reject("read_cart", sub, 500)
         \/ Reject("read_cart", sub, 200)

row_of(item_id) ==
    {i \in DOMAIN carts[item_id[1]].items : carts[item_id[1]].items[i].product_id = item_id[2]}

with_quantity_allowed(sub, item_id, quantity) ==
    /\ row_of(item_id) # {} /\ item_id[1] = sub
    /\ quantity # None /\ quantity >= 1
    /\ products[item_id[2]].quantity >= quantity

update_cart_item(sub, item_id, quantity) ==
    LET auth == buyer_required(sub) IN
    IF auth # 200 THEN Reject("update_cart_item", sub, auth)
    ELSE \/ Reject("update_cart_item", sub, 500)
         \/ IF row_of(item_id) = {} THEN Reject("update_cart_item", sub, 404)
            ELSE IF item_id[1] # sub THEN Reject("update_cart_item", sub, 404)
            ELSE IF ~with_quantity_allowed(sub, item_id, quantity)
            THEN Reject("update_cart_item", sub, 400)
            ELSE /\ carts' = [carts EXCEPT ![sub].items =
                                 [i \in DOMAIN @ |-> IF i \in row_of(item_id)
                                                     THEN [@[i] EXCEPT !.quantity = quantity]
                                                     ELSE @[i]]]
                 /\ Respond("update_cart_item", sub, 200)
                 /\ UNCHANGED <<users, products, orders, order_items, payments, mpesa_callbacks,
                                delivery_assignments, delivery_agents, delivery_groups,
                                active_users>>

remove_cart_item(sub, item_id) ==
    LET auth == buyer_required(sub) IN
    IF auth # 200 THEN Reject("remove_cart_item", sub, auth)
    ELSE \/ Reject("remove_cart_item", sub, 500)
         \/ IF row_of(item_id) = {} THEN Reject("remove_cart_item", sub, 404)
            ELSE IF item_id[1] # sub THEN Reject("remove_cart_item", sub, 404)
            ELSE /\ carts' = [carts EXCEPT ![sub].items =
                                 SelectSeq(@, LAMBDA e : e.product_id # item_id[2])]
                 /\ Respond("remove_cart_item", sub, 200)
                 /\ UNCHANGED <<users, products, orders, order_items, payments, mpesa_callbacks,
                                delivery_assignments, delivery_agents, delivery_groups,
                                active_users>>

clear_cart(sub) ==
    LET auth == buyer_required(sub) IN
    IF auth # 200 THEN Reject("clear_cart", sub, auth)
    ELSE \/ Reject("clear_cart", sub, 500)
         \/ IF ~carts[sub].exists THEN Reject("clear_cart", sub, 200)
            ELSE /\ carts' = [carts EXCEPT ![sub].items = <<>>]
                 /\ Respond("clear_cart", sub, 200)
                 /\ UNCHANGED <<users, products, orders, order_items, payments, mpesa_callbacks,
                                delivery_assignments, delivery_agents, delivery_groups,
                                active_users>>

-----------------------------------------------------------------------------
(* utils/delivery.py *)

base_cost == 5000
weight_surcharge == 1000
weight_threshold == 20

RECURSIVE total_weight(_)
total_weight(cart_items) ==
    IF cart_items = <<>> THEN 0
    ELSE products[Head(cart_items).product_id].weight_per_unit * Head(cart_items).quantity
         + total_weight(Tail(cart_items))

(* the surcharge from the threshold on *)
estimate_delivery_cost_from_threshold(cart_items) ==
    base_cost + (IF total_weight(cart_items) >= weight_threshold THEN weight_surcharge ELSE 0)

estimate_delivery_cost(cart_items) ==
    base_cost + (IF total_weight(cart_items) > weight_threshold THEN weight_surcharge ELSE 0)

(* the dictionary returned: the amount and the currency *)
delivery_quote(cart_items) == [amount |-> estimate_delivery_cost(cart_items), currency |-> "KES"]

-----------------------------------------------------------------------------
(* resources/orders.py: checkout *)

RECURSIVE items_amount(_)
items_amount(cart_items) ==
    IF cart_items = <<>> THEN 0
    ELSE products[Head(cart_items).product_id].price * Head(cart_items).quantity
         + items_amount(Tail(cart_items))

RECURSIVE purchased(_, _)
purchased(cart_items, p) ==
    IF cart_items = <<>> THEN 0
    ELSE (IF Head(cart_items).product_id = p THEN Head(cart_items).quantity ELSE 0)
         + purchased(Tail(cart_items), p)

line_available_unchecked(cart_item) == TRUE

line_available(cart_item) ==
    /\ products[cart_item.product_id].is_available
    /\ products[cart_item.product_id].quantity >= cart_item.quantity

(* the delivery cost is stored but left out of the total *)
new_order_without_delivery(buyer_id, cart_items) ==
    [buyer_id |-> buyer_id,
     farmer_id |-> products[cart_items[1].product_id].farmer_id,
     delivery_agent_id |-> None,
     delivery_group_id |-> None,
     total_items_amount |-> items_amount(cart_items),
     delivery_cost |-> estimate_delivery_cost(cart_items),
     total_price |-> items_amount(cart_items),
     payment_status |-> "pending",
     delivery_status |-> "processing",
     status |-> "placed"]

new_order(buyer_id, cart_items) ==
    LET total_items_amount == items_amount(cart_items)
        delivery_cost == estimate_delivery_cost(cart_items)
    IN [buyer_id |-> buyer_id,
        farmer_id |-> products[cart_items[1].product_id].farmer_id,
        delivery_agent_id |-> None,
        delivery_group_id |-> None,
        total_items_amount |-> total_items_amount,
        delivery_cost |-> delivery_cost,
        total_price |-> total_items_amount + delivery_cost,
        payment_status |-> "pending",
        delivery_status |-> "processing",
        status |-> "placed"]

new_order_items(order_id, cart_items) ==
    [i \in 1..Len(cart_items) |->
        [order_id |-> order_id,
         product_id |-> cart_items[i].product_id,
         quantity |-> cart_items[i].quantity,
         price_at_purchase |-> products[cart_items[i].product_id].price,
         weight_per_unit |-> products[cart_items[i].product_id].weight_per_unit]]

decrement_stock_first_line(cart_items) ==
    [p \in DOMAIN products |->
        [products[p] EXCEPT !.quantity =
            @ - (IF cart_items[1].product_id = p THEN cart_items[1].quantity ELSE 0)]]

decrement_stock(cart_items) ==
    [p \in DOMAIN products |->
        [products[p] EXCEPT !.quantity = @ - purchased(cart_items, p)]]

OrderList_post(sub, shipping_address_id) ==
    LET auth == any_authenticated_user(sub) IN
    IF auth # 200 THEN Reject("create_order", sub, auth)
    ELSE LET cart == carts[sub] IN
         IF ~cart.exists \/ cart.items = <<>> THEN Reject("create_order", sub, 400)
         ELSE IF shipping_address_id = None THEN Reject("create_order", sub, 400)
         ELSE IF shipping_address_id \notin LocationIds THEN Reject("create_order", sub, 400)
         ELSE IF \E i \in 1..Len(cart.items) : ~line_available(cart.items[i])
         THEN Reject("create_order", sub, 400)
         ELSE IF \E p \in DOMAIN products : decrement_stock(cart.items)[p].quantity < 0
         THEN Reject("create_order", sub, 500)   \* check_quantity_positive, rolled back
         ELSE /\ Len(orders) < MaxOrders
              /\ orders' = Append(orders, new_order(sub, cart.items))
              /\ order_items' = order_items \o new_order_items(Len(orders) + 1, cart.items)
              /\ products' = decrement_stock(cart.items)
              /\ carts' = [carts EXCEPT ![sub].items = <<>>]
              /\ Respond("create_order", sub, 201)
              /\ UNCHANGED <<users, payments, mpesa_callbacks, delivery_assignments,
                             delivery_agents, delivery_groups, active_users>>

-----------------------------------------------------------------------------
(* OrderList.post as two steps.  The handler takes no lock and reads the    *)
(* products without FOR UPDATE: between its availability loop and its       *)
(* commit another request may run.  in_flight[sub] holds what the request   *)
(* has in its session after the loop: the cart lines, the product rows as   *)
(* loaded, and the order and order items computed from them.                *)

Idle == [active |-> FALSE, items |-> <<>>, read |-> <<>>, order |-> None, lines |-> <<>>]

OrderList_begin(sub, shipping_address_id) ==
    LET auth == any_authenticated_user(sub) IN
    IF auth # 200 THEN Reject("create_order", sub, auth)
    ELSE LET cart == carts[sub] IN
         IF ~cart.exists \/ cart.items = <<>> THEN Reject("create_order", sub, 400)
         ELSE IF shipping_address_id = None THEN Reject("create_order", sub, 400)
         ELSE IF shipping_address_id \notin LocationIds THEN Reject("create_order", sub, 400)
         ELSE IF \E i \in 1..Len(cart.items) : ~line_available(cart.items[i])
         THEN Reject("create_order", sub, 400)
         ELSE /\ ~in_flight[sub].active
              /\ Len(orders) + Cardinality({u \in UserIds : in_flight[u].active}) < MaxOrders
              /\ in_flight' = [in_flight EXCEPT ![sub] =
                                  [active |-> TRUE,
                                   items |-> cart.items,
                                   read |-> products,
                                   order |-> new_order(sub, cart.items),
                                   lines |-> new_order_items(None, cart.items)]]
              /\ UNCHANGED <<db, active_users, identity, chat, last, product_images, locations,
                             joined_rooms, initiating, joining>>

(* the decrement applied to the row as it is in the database at commit *)
stock_written_from_current(read, cart_items) == decrement_stock(cart_items)

(* product.quantity -= n on the loaded row: UPDATE ... SET quantity = loaded - n *)
stock_written(read, cart_items) ==
    [p \in DOMAIN products |->
        IF purchased(cart_items, p) > 0
        THEN [products[p] EXCEPT !.quantity = read[p].quantity - purchased(cart_items, p)]
        ELSE products[p]]

OrderList_commit(sub) ==
    /\ in_flight[sub].active
    /\ LET request == in_flight[sub]
           written == stock_written(request.read, request.items)
       IN IF \E p \in DOMAIN products : written[p].quantity < 0
          THEN /\ in_flight' = [in_flight EXCEPT ![sub] = Idle]   \* check_quantity_positive, rolled back
               /\ Answer("create_order", sub, 500)
               /\ UNCHANGED <<db, active_users, identity, chat, product_images, locations,
                              joined_rooms, initiating, joining>>
          ELSE /\ orders' = Append(orders, request.order)
               /\ order_items' = order_items \o
                                    [i \in 1..Len(request.lines) |->
                                        [request.lines[i] EXCEPT !.order_id = Len(orders) + 1]]
               /\ products' = written
               /\ carts' = [carts EXCEPT ![sub].items = <<>>]
               /\ in_flight' = [in_flight EXCEPT ![sub] = Idle]
               /\ Answer("create_order", sub, 201)
               /\ UNCHANGED <<users, payments, mpesa_callbacks, delivery_assignments,
                              delivery_agents, delivery_groups, active_users, identity, chat,
                              product_images, locations, joined_rooms, initiating, joining>>

-----------------------------------------------------------------------------
(* app.py: update_product.  data holds the fields present in the request.  *)
(* app.py never imports Product: as the file stands the first line of the  *)
(* body raises NameError, which the decorator answers with 500.  Both that *)
(* outcome and the body as written (Product bound) are kept.               *)

(* Product.images of product id, by image id *)
images_of(id) == {i \in DOMAIN product_images : product_images[i].product_id = id}

image_uri(i) == <<"https://res.cloudinary.com", i>>

(* Product.to_dict: the uri of the first image flagged primary, or None *)
primary_image(id) ==
    LET flagged == {i \in images_of(id) : product_images[i].is_primary}
    IN IF flagged = {} THEN None
       ELSE image_uri(CHOOSE i \in flagged : \A k \in flagged : i <= k)

(* the siblings keep their flags *)
with_new_primary_siblings_kept(id) ==
    Append(product_images, [product_id |-> id, is_primary |-> TRUE])

(* existing_image.is_primary = False for the product's images, then the new *)
(* image, flagged primary                                                   *)
with_new_primary(id) ==
    Append([i \in DOMAIN product_images |->
               IF i \in images_of(id) THEN [product_images[i] EXCEPT !.is_primary = FALSE]
               ELSE product_images[i]],
           [product_id |-> id, is_primary |-> TRUE])

(* existing_image.is_primary = (existing_image.id == new_primary_id) *)
with_primary(id, new_primary_id) ==
    [i \in DOMAIN product_images |->
        IF i \in images_of(id) THEN [product_images[i] EXCEPT !.is_primary = (i = new_primary_id)]
        ELSE product_images[i]]

(* data.image: "none" no file in the request, "ok" the upload succeeds,     *)
(* "fails" cloudinary raises.  data.valid: the required fields are there    *)
(* and can be converted.                                                   *)
create_product(sub, data) ==
    LET auth == farmer_required(sub) IN
    IF auth # 200 THEN Reject("create_product", sub, auth)
    ELSE IF ~data.valid THEN Reject("create_product", sub, 400)
    ELSE \/ Reject("create_product", sub, 500)
         \/ LET id == Cardinality(DOMAIN products) + 1 IN
            IF data.price < 0 \/ data.quantity < 0
            THEN Reject("create_product", sub, 500)   \* check constraint at the flush
            ELSE IF data.image = "fails" THEN Reject("create_product", sub, 502)
            ELSE /\ Cardinality(DOMAIN products) < MaxProducts
                 /\ data.image = "ok" => Len(product_images) < MaxImages
                 /\ products' = [p \in DOMAIN products \cup {id} |->
                                    IF p = id
                                    THEN [farmer_id |-> sub,
                                          price |-> data.price,
                                          quantity |-> data.quantity,
                                          weight_per_unit |-> 0,
                                          is_available |-> TRUE]
                                    ELSE products[p]]
                 /\ product_images' = IF data.image = "ok"
                                      THEN with_new_primary(id)
                                      ELSE product_images
                 /\ Answer("create_product", sub, 201)
                 /\ UNCHANGED <<users, carts, orders, order_items, payments,
                                mpesa_callbacks, delivery_assignments, delivery_agents,
                                delivery_groups, active_users, identity, chat, in_flight,
                                locations, joined_rooms, initiating, joining>>

update_product(sub, id, data) ==
    LET auth == farmer_required(sub) IN
    IF auth # 200 THEN Reject("update_product", sub, auth)
    ELSE \/ Reject("update_product", sub, 500)
         \/ IF id \notin DOMAIN products
            THEN Reject("update_product", sub, 500)  \* get_or_404 raised inside the decorator's try
            ELSE IF products[id].farmer_id # sub /\ get_role_name(sub) # "superadmin"
            THEN Reject("update_product", sub, 403)
            ELSE LET updated == [products[id] EXCEPT
                                    !.price = IF data.has_price THEN data.price ELSE @,
                                    !.quantity = IF data.has_quantity THEN data.quantity ELSE @,
                                    !.is_available = IF data.has_is_available
                                                     THEN data.is_available ELSE @]
                     new_primary_id == data.primary_image_id
                     named == data.image = "none" /\ new_primary_id \notin {JNone, JInt(0)}
                 IN IF data.image = "fails" THEN Reject("update_product", sub, 502)
                    ELSE IF named /\ ~int_ok(new_primary_id)
                    THEN Reject("update_product", sub, 400)
                    ELSE IF updated.price < 0 \/ updated.quantity < 0
                    THEN Reject("update_product", sub, 500)   \* check constraint, rolled back
                    ELSE IF named /\ int_of(new_primary_id) \notin images_of(id)
                    THEN Reject("update_product", sub, 404)   \* the flags set in the loop are rolled back
                    ELSE /\ data.image = "ok" => Len(product_images) < MaxImages
                         /\ products' = [products EXCEPT ![id] = updated]
                         /\ product_images' =
                               IF data.image = "ok" THEN with_new_primary(id)
                               ELSE IF named THEN with_primary(id, int_of(new_primary_id))
                               ELSE product_images
                         /\ Answer("update_product", sub, 200)
                         /\ UNCHANGED <<users, carts, orders, order_items, payments,
                                        mpesa_callbacks, delivery_assignments, delivery_agents,
                                        delivery_groups, active_users, identity, chat, in_flight,
                                locations, joined_rooms, initiating, joining>>

-----------------------------------------------------------------------------
(* resources/orders.py: OrderDetail.patch.  data is the JSON object of the  *)
(* request: a record holding the fields that are present.                   *)

valid_patch(data) ==
    /\ "payment_status" \in DOMAIN data => data.payment_status \in PaymentStatus
    /\ "delivery_status" \in DOMAIN data => data.delivery_status \in OrderDeliveryStatus
    /\ "status" \in DOMAIN data => data.status \in OrderStatus
    /\ "delivery_agent_id" \in DOMAIN data =>
          data.delivery_agent_id = None \/ users[data.delivery_agent_id].exists

(* the superadmin, too, sets the delivery status only *)
patched_delivery_status_only(order, data) ==
    [order EXCEPT
       !.delivery_status = IF "delivery_status" \in DOMAIN data THEN data.delivery_status ELSE @]

patched(order, data) ==
    [order EXCEPT
       !.payment_status = IF "payment_status" \in DOMAIN data THEN data.payment_status ELSE @,
       !.delivery_status = IF "delivery_status" \in DOMAIN data THEN data.delivery_status ELSE @,
       !.status = IF "status" \in DOMAIN data THEN data.status ELSE @,
       !.delivery_agent_id = IF "delivery_agent_id" \in DOMAIN data THEN data.delivery_agent_id ELSE @]

OrderDetail_patch(sub, order_id, data) ==
    LET auth == any_authenticated_user(sub) IN
    IF auth # 200 THEN Reject("patch_order", sub, auth)
    ELSE IF order_id \notin DOMAIN orders THEN Reject("patch_order", sub, 500)  \* get_or_404 raised inside the decorator's try
    ELSE LET order == orders[order_id]
             role == get_role_name(sub)
         IN IF role = "delivery_agent" /\ order.delivery_agent_id = sub
            THEN IF "delivery_status" \in DOMAIN data /\ data.delivery_status \in OrderDeliveryStatus
                 THEN /\ orders' = [orders EXCEPT ![order_id].delivery_status = data.delivery_status]
                      /\ Respond("patch_order", sub, 200)
                      /\ UNCHANGED <<users, products, carts, order_items, payments, mpesa_callbacks,
                                     delivery_assignments, delivery_agents, delivery_groups,
                                     active_users>>
                 ELSE Reject("patch_order", sub, 403)
            ELSE IF role = "superadmin"
            THEN IF ~valid_patch(data)
                 THEN Reject("patch_order", sub, 500)   \* ValueError or IntegrityError, nothing committed
                 ELSE /\ orders' = [orders EXCEPT ![order_id] = patched(order, data)]
                      /\ Respond("patch_order", sub, 200)
                      /\ UNCHANGED <<users, products, carts, order_items, payments, mpesa_callbacks,
                                     delivery_assignments, delivery_agents, delivery_groups,
                                     active_users>>
            ELSE Reject("patch_order", sub, 403)

-----------------------------------------------------------------------------
(* utils/mpesa.py.  A callback payload is a record: nested says whether    *)
(* Body.stkCallback is an object, the n_ fields are read from it, the f_   *)
(* fields from the top level, empty says the payload is {}.  Identifiers   *)
(* are NoValue when absent.                                                *)

NoValue == <<"none">>

initiate_stk_push_fixed_id(payment_id) == [checkout_request_id |-> <<"CHECKOUT", 1>>]

(* uuid4: a fresh identifier for every call, named after the payment row   *)
initiate_stk_push(payment_id) == [checkout_request_id |-> <<"CHECKOUT", payment_id>>]

extract_checkout_request_id(payload) ==
    IF payload.nested /\ payload.n_id # NoValue THEN payload.n_id ELSE payload.f_id

extract_mpesa_receipt(payload) ==
    IF payload.nested /\ payload.n_receipt # NoValue THEN payload.n_receipt ELSE payload.f_receipt

(* any result code counts as success *)
callback_successful_any_code(payload) ==
    IF payload.nested /\ payload.n_code # JNone
    THEN IF int_ok(payload.n_code) THEN "true" ELSE "raise"
    ELSE IF payload.f_code # JNone /\ int_ok(payload.f_code) THEN "true" ELSE "false"

(* "raise" stands for the ValueError that int() raises *)
callback_successful(payload) ==
    IF payload.nested /\ payload.n_code # JNone
    THEN IF int_ok(payload.n_code) THEN IF int_of(payload.n_code) = 0 THEN "true" ELSE "false"
         ELSE "raise"
    ELSE IF payload.f_code # JNone
    THEN IF int_ok(payload.f_code) /\ int_of(payload.f_code) = 0 THEN "true" ELSE "false"
    ELSE "false"

-----------------------------------------------------------------------------
(* resources/orders.py: payments *)

PaymentInit_post(sub, order_id) ==
    LET auth == buyer_required(sub) IN
    IF auth # 200 THEN Reject("initiate_payment", sub, auth)
    ELSE IF order_id \notin DOMAIN orders THEN Reject("initiate_payment", sub, 500)  \* get_or_404 raised inside the decorator's try
    ELSE IF orders[order_id].buyer_id # sub THEN Reject("initiate_payment", sub, 403)
    ELSE IF orders[order_id].payment_status # "pending" THEN Reject("initiate_payment", sub, 400)
    ELSE LET payment_id == Len(payments) + 1
             mpesa_request == initiate_stk_push(payment_id)
         IN IF \E i \in DOMAIN payments : payments[i].transaction_id = mpesa_request.checkout_request_id
            THEN Reject("initiate_payment", sub, 500)   \* unique transaction_id, rolled back
            ELSE /\ Len(payments) < MaxPayments
                 /\ payments' = Append(payments,
                                       [order_id |-> order_id,
                                        amount |-> orders[order_id].total_price,
                                        method |-> "mpesa_stk",
                                        status |-> "initiated",
                                        transaction_id |-> mpesa_request.checkout_request_id])
                 /\ orders' = [orders EXCEPT ![order_id].payment_status = "initiated"]
                 /\ Respond("initiate_payment", sub, 200)
                 /\ UNCHANGED <<users, products, carts, order_items, mpesa_callbacks,
                                delivery_assignments, delivery_agents, delivery_groups,
                                active_users>>

(* The same request in two steps: the order is loaded and checked in one,  *)
(* the Payment row and the order's new status are committed in the other,  *)
(* and another request may run in between.  Nothing locks the order row    *)
(* (no SELECT ... FOR UPDATE, no version column), and the UPDATE of the    *)
(* second committer does not depend on the status it read.                 *)
PaymentInit_begin(request, sub, order_id) ==
    LET auth == buyer_required(sub) IN
    IF auth # 200 THEN Reject("initiate_payment", sub, auth)
    ELSE IF order_id \notin DOMAIN orders THEN Reject("initiate_payment", sub, 500)
    ELSE IF orders[order_id].buyer_id # sub THEN Reject("initiate_payment", sub, 403)
    ELSE IF orders[order_id].payment_status # "pending" THEN Reject("initiate_payment", sub, 400)
    ELSE /\ \A r \in initiating : r.request # request
         /\ initiating' = initiating \cup {[request |-> request, sub |-> sub, order_id |-> order_id]}
         /\ UNCHANGED <<db, active_users, identity, chat, last, in_flight, product_images,
                        locations, joined_rooms, joining>>

PaymentInit_commit(request) ==
    \E r \in initiating :
       /\ r.request = request
       /\ LET payment_id == Len(payments) + 1
              mpesa_request == initiate_stk_push(payment_id)
          IN /\ Len(payments) < MaxPayments
             /\ payments' = Append(payments,
                                   [order_id |-> r.order_id,
                                    amount |-> orders[r.order_id].total_price,
                                    method |-> "mpesa_stk",
                                    status |-> "initiated",
                                    transaction_id |-> mpesa_request.checkout_request_id])
             /\ orders' = [orders EXCEPT ![r.order_id].payment_status = "initiated"]
             /\ initiating' = initiating \ {r}
             /\ Answer("initiate_payment", r.sub, 200)
             /\ UNCHANGED <<users, products, carts, order_items, mpesa_callbacks,
                            delivery_assignments, delivery_agents, delivery_groups,
                            active_users, identity, chat, in_flight, product_images,
                            locations, joined_rooms, joining>>

(* the latest payment, whatever the id *)
matching_payment_any_id(checkout_request_id) ==
    IF payments = <<>> THEN None ELSE Len(payments)

(* Payment.query.filter_by(transaction_id=...).order_by(created_at.desc()).first() *)
matching_payment(checkout_request_id) ==
    LET found == {i \in DOMAIN payments : payments[i].transaction_id = checkout_request_id}
    IN IF checkout_request_id = NoValue \/ found = {} THEN None
       ELSE CHOOSE i \in found : \A j \in found : j <= i

(* the order keeps the status it had *)
order_marked_never(payment_id, status) == orders

(* payment.order.payment_status = status *)
order_marked(payment_id, status) ==
    [orders EXCEPT ![payments[payment_id].order_id].payment_status = status]

MpesaCallbackResource_post(payload) ==
    IF payload.empty THEN Reject("mpesa_callback", None, 400)
    ELSE LET checkout_request_id == extract_checkout_request_id(payload)
             payment_id == matching_payment(checkout_request_id)
             callback_record == [payment_id |-> payment_id, payload |-> payload]
         IN IF payment_id = None
            THEN /\ Len(mpesa_callbacks) < MaxCallbacks
                 /\ mpesa_callbacks' = Append(mpesa_callbacks, callback_record)
                 /\ Respond("mpesa_callback", None, 200)
                 /\ UNCHANGED <<users, products, carts, orders, order_items, payments,
                                delivery_assignments, delivery_agents, delivery_groups,
                                active_users>>
            ELSE LET success == callback_successful(payload)
                     receipt_number == extract_mpesa_receipt(payload)
                     transaction_id == IF success = "true" /\ receipt_number # NoValue
                                       THEN receipt_number
                                       ELSE payments[payment_id].transaction_id
                     status == IF success = "true" THEN "paid" ELSE "failed"
                 IN IF success = "raise"
                    THEN Reject("mpesa_callback", None, 500)   \* rolled back with the audit row
                    ELSE IF \E i \in DOMAIN payments :
                               i # payment_id /\ payments[i].transaction_id = transaction_id
                    THEN Reject("mpesa_callback", None, 500)   \* unique transaction_id, rolled back
                    ELSE /\ Len(mpesa_callbacks) < MaxCallbacks
                         /\ mpesa_callbacks' = Append(mpesa_callbacks, callback_record)
                         /\ payments' = [payments EXCEPT ![payment_id].status = status,
                                                         ![payment_id].transaction_id = transaction_id]
                         /\ orders' = order_marked(payment_id, status)
                         /\ Respond("mpesa_callback", None, 200)
                         /\ UNCHANGED <<users, products, carts, order_items,
                                        delivery_assignments, delivery_agents, delivery_groups,
                                        active_users>>

-----------------------------------------------------------------------------
(* resources/orders.py: delivery *)

STATUS_TO_ASSIGNMENT_STATUS ==
    [assigned |-> "assigned", out_for_delivery |-> "in_transit", delivered |-> "delivered",
     cancelled |-> "failed", returned |-> "failed"]

(* the profile row is created with is_available = True *)
ensure_delivery_agent_profile(profiles, user) ==
    IF profiles[user] = "none" THEN [profiles EXCEPT ![user] = "available"] ELSE profiles

(* DeliveryAssignment.query.filter_by(order_id=...).order_by(assigned_at.desc()).first() *)
latest_assignment(order_id) ==
    LET rows == {i \in DOMAIN delivery_assignments : delivery_assignments[i].order_id = order_id}
    IN IF rows = {} THEN None ELSE CHOOSE i \in rows : \A j \in rows : j <= i

(* the per-order part of both assignment handlers *)
assign_order(order, agent_id, group_id) ==
    [order EXCEPT
       !.delivery_agent_id = agent_id,
       !.delivery_status = IF @ \in {"processing", "assigned"} THEN "assigned" ELSE @,
       !.delivery_group_id = IF group_id # None /\ @ = None THEN group_id ELSE @]

(* a new row for every order, whether or not it has one *)
upsert_assignments_insert_only(order_ids, agent_id, group_id) ==
    LET ids == SelectSeq([i \in 1..Len(orders) |-> i], LAMBDA o : o \in order_ids)
    IN delivery_assignments \o [i \in 1..Len(ids) |->
                                   [order_id |-> ids[i], agent_id |-> agent_id,
                                    delivery_group_id |-> group_id, status |-> "assigned"]]

upsert_assignments(order_ids, agent_id, group_id) ==
    LET updated == [i \in DOMAIN delivery_assignments |->
                      LET row == delivery_assignments[i] IN
                      IF row.order_id \in order_ids /\ latest_assignment(row.order_id) = i
                      THEN [row EXCEPT !.agent_id = agent_id,
                                       !.delivery_group_id = IF group_id # None THEN group_id ELSE @,
                                       !.status = "assigned"]
                      ELSE row]
        ids == SelectSeq([i \in 1..Len(orders) |-> i],
                         LAMBDA o : o \in order_ids /\ latest_assignment(o) = None)
    IN updated \o [i \in 1..Len(ids) |->
                      [order_id |-> ids[i], agent_id |-> agent_id,
                       delivery_group_id |-> group_id, status |-> "assigned"]]

is_delivery_agent(agent_id) ==
    /\ agent_id \in UserIds
    /\ users[agent_id].exists
    /\ get_role_name(agent_id) = "delivery_agent"

(* the profile is made sure of and left as it is *)
with_agent_taken_profile_only(agent_id) ==
    ensure_delivery_agent_profile(delivery_agents, agent_id)

(* profile = _ensure_delivery_agent_profile(agent); profile.is_available = False *)
with_agent_taken(agent_id) ==
    [ensure_delivery_agent_profile(delivery_agents, agent_id) EXCEPT ![agent_id] = "unavailable"]

FarmerAssignDeliveryAgent_post(sub, order_id, agent_id) ==
    LET auth == farmer_required(sub) IN
    IF auth # 200 THEN Reject("farmer_assign", sub, auth)
    ELSE IF order_id \notin DOMAIN orders THEN Reject("farmer_assign", sub, 500)  \* get_or_404 raised inside the decorator's try
    ELSE IF orders[order_id].farmer_id # sub THEN Reject("farmer_assign", sub, 403)
    ELSE IF agent_id = None THEN Reject("farmer_assign", sub, 400)
    ELSE IF ~is_delivery_agent(agent_id) THEN Reject("farmer_assign", sub, 400)
    ELSE /\ delivery_assignments' = upsert_assignments({order_id}, agent_id, None)
         /\ orders' = [orders EXCEPT ![order_id] = assign_order(@, agent_id, None)]
         /\ delivery_agents' = with_agent_taken(agent_id)
         /\ Respond("farmer_assign", sub, 200)
         /\ UNCHANGED <<users, products, carts, order_items, payments, mpesa_callbacks,
                        delivery_groups, active_users>>

AssignDeliveryAgent_post(sub, agent_id, order_ids, delivery_group_id) ==
    LET auth == admin_required(sub) IN
    IF auth # 200 THEN Reject("admin_assign", sub, auth)
    ELSE IF agent_id = None THEN Reject("admin_assign", sub, 400)
    ELSE IF ~is_delivery_agent(agent_id) THEN Reject("admin_assign", sub, 400)
    ELSE IF delivery_group_id # None /\ delivery_group_id \notin DOMAIN delivery_groups
    THEN Reject("admin_assign", sub, 500)   \* get_or_404 raised inside the handler's try
    ELSE IF delivery_group_id = None /\ order_ids = {} THEN Reject("admin_assign", sub, 400)
    ELSE LET chosen == IF delivery_group_id # None
                       THEN {o \in DOMAIN orders : orders[o].delivery_group_id = delivery_group_id}
                       ELSE order_ids \cap DOMAIN orders
         IN IF chosen = {} THEN Reject("admin_assign", sub, 404)
            ELSE /\ orders' = [o \in DOMAIN orders |->
                                  IF o \in chosen
                                  THEN assign_order(orders[o], agent_id, delivery_group_id)
                                  ELSE orders[o]]
                 /\ delivery_assignments' = upsert_assignments(chosen, agent_id, delivery_group_id)
                 /\ delivery_groups' = IF delivery_group_id # None
                                       THEN [delivery_groups EXCEPT ![delivery_group_id].status = "assigned"]
                                       ELSE delivery_groups
                 /\ delivery_agents' = with_agent_taken(agent_id)
                 /\ Respond("admin_assign", sub, 200)
                 /\ UNCHANGED <<users, products, carts, order_items, payments, mpesa_callbacks,
                                active_users>>

(* the status change shared by the HTTP and the socket handler: the order, *)
(* its latest assignment, and the agent's release                          *)
status_orders(order_id, requested_status) ==
    [orders EXCEPT ![order_id].delivery_status = requested_status]

status_assignments(order_id, requested_status) ==
    LET assignment == latest_assignment(order_id) IN
    IF assignment # None /\ requested_status \in DOMAIN STATUS_TO_ASSIGNMENT_STATUS
    THEN [delivery_assignments EXCEPT
             ![assignment].status = STATUS_TO_ASSIGNMENT_STATUS[requested_status]]
    ELSE delivery_assignments

status_agents(order_id, requested_status) ==
    LET agent_id == orders[order_id].delivery_agent_id
        remaining == {o \in DOMAIN orders :
                         /\ status_orders(order_id, requested_status)[o].delivery_agent_id = agent_id
                         /\ status_orders(order_id, requested_status)[o].delivery_status # "delivered"}
    IN IF requested_status = "delivered" /\ agent_id # None /\ remaining = {}
       THEN [ensure_delivery_agent_profile(delivery_agents, agent_id) EXCEPT ![agent_id] = "available"]
       ELSE delivery_agents

OrderStatusUpdateResource_patch(sub, order_id, requested_status) ==
    LET auth == any_authenticated_user(sub) IN
    IF auth # 200 THEN Reject("update_status", sub, auth)
    ELSE IF order_id \notin DOMAIN orders THEN Reject("update_status", sub, 500)  \* get_or_404 raised inside the decorator's try
    ELSE IF requested_status = "" THEN Reject("update_status", sub, 400)
    ELSE IF requested_status \notin OrderDeliveryStatus THEN Reject("update_status", sub, 400)
    ELSE IF get_role_name(sub) = "delivery_agent" /\ orders[order_id].delivery_agent_id # sub
    THEN Reject("update_status", sub, 403)
    ELSE IF get_role_name(sub) \notin {"delivery_agent", "superadmin"}
    THEN Reject("update_status", sub, 403)
    ELSE /\ orders' = status_orders(order_id, requested_status)
         /\ delivery_assignments' = status_assignments(order_id, requested_status)
         /\ delivery_agents' = status_agents(order_id, requested_status)
         /\ Respond("update_status", sub, 200)
         /\ UNCHANGED <<users, products, carts, order_items, payments, mpesa_callbacks,
                        delivery_groups, active_users>>

(* region is "" when the request has none *)
DeliveryGroupList_post(sub, region, order_ids) ==
    LET auth == admin_required(sub) IN
    IF auth # 200 THEN Reject("create_group", sub, auth)
    ELSE IF region = "" THEN Reject("create_group", sub, 400)
    ELSE LET group_id == Len(delivery_groups) + 1
             grouped == {o \in order_ids \cap DOMAIN orders :
                            /\ orders[o].payment_status = "paid"
                            /\ orders[o].delivery_status = "processing"}
         IN /\ Len(delivery_groups) < MaxGroups
            /\ delivery_groups' = Append(delivery_groups, [region |-> region, status |-> "created"])
            /\ orders' = [o \in DOMAIN orders |->
                             IF o \in grouped
                             THEN [orders[o] EXCEPT !.delivery_group_id = group_id,
                                                    !.delivery_status = "assigned"]
                             ELSE orders[o]]
            /\ Respond("create_group", sub, 201)
            /\ UNCHANGED <<users, products, carts, order_items, payments, mpesa_callbacks,
                           delivery_assignments, delivery_agents, active_users>>

DeliveryGroupDetail_patch(sub, group_id, data) ==
    LET auth == admin_required(sub) IN
    IF auth # 200 THEN Reject("patch_group", sub, auth)
    ELSE IF group_id \notin DOMAIN delivery_groups THEN Reject("patch_group", sub, 500)  \* get_or_404 raised inside the decorator's try
    ELSE LET order_ids == IF "order_ids" \in DOMAIN data THEN data.order_ids ELSE {} IN
         /\ delivery_groups' = [delivery_groups EXCEPT ![group_id].status =
                                   IF "status" \in DOMAIN data THEN data.status ELSE @]
         /\ orders' = [o \in DOMAIN orders |->
                          IF o \in order_ids
                          THEN [orders[o] EXCEPT
                                  !.delivery_group_id = group_id,
                                  !.delivery_status = IF @ = "processing" THEN "assigned" ELSE @]
                          ELSE orders[o]]
         /\ Respond("patch_group", sub, 200)
         /\ UNCHANGED <<users, products, carts, order_items, payments, mpesa_callbacks,
                        delivery_assignments, delivery_agents, active_users>>

(* the agent's position (latitude, longitude) is not part of the model *)
DeliveryAgentStatusResource_patch(sub, data) ==
    LET auth == delivery_agent_required(sub) IN
    IF auth # 200 THEN Reject("agent_status", sub, auth)
    ELSE /\ delivery_agents' =
               IF "is_available" \in DOMAIN data
               THEN [delivery_agents EXCEPT ![sub] =
                        IF data.is_available THEN "available" ELSE "unavailable"]
               ELSE ensure_delivery_agent_profile(delivery_agents, sub)
         /\ Respond("agent_status", sub, 200)
         /\ UNCHANGED <<users, products, carts, orders, order_items, payments, mpesa_callbacks,
                        delivery_assignments, delivery_groups, active_users>>

-----------------------------------------------------------------------------
(* resources/orders.py: reading one order.  The reads change no row; the    *)
(* answer 200 carries the order's data.                                     *)

OrderDetail_get(sub, order_id) ==
    LET auth == any_authenticated_user(sub) IN
    IF auth # 200 THEN Reject("get_order", sub, auth)
    ELSE IF order_id \notin DOMAIN orders THEN Reject("get_order", sub, 500)  \* get_or_404 raised inside the decorator's try
    ELSE LET order == orders[order_id] IN
         IF /\ get_role_name(sub) \notin {"superadmin"}
            /\ order.buyer_id # sub
            /\ order.farmer_id # sub
            /\ order.delivery_agent_id # sub
         THEN Reject("get_order", sub, 403)
         ELSE Reject("get_order", sub, 200)

(* every delivery agent counted in *)
allowed_with_any_agent(order_id) ==
    {orders[order_id].buyer_id, orders[order_id].delivery_agent_id, orders[order_id].farmer_id}
       \cup {u \in UserIds : users[u].role = "delivery_agent"}

allowed(order_id) ==
    {orders[order_id].buyer_id, orders[order_id].delivery_agent_id, orders[order_id].farmer_id}

OrderTrackingResource_get(sub, order_id) ==
    LET auth == any_authenticated_user(sub) IN
    IF auth # 200 THEN Reject("track_order", sub, auth)
    ELSE IF order_id \notin DOMAIN orders THEN Reject("track_order", sub, 500)  \* get_or_404 raised inside the decorator's try
    ELSE IF get_role_name(sub) # "superadmin" /\ sub \notin allowed(order_id)
    THEN Reject("track_order", sub, 403)
    ELSE Reject("track_order", sub, 200)

-----------------------------------------------------------------------------
(* socket_events.py.  The token's subject is the string str(user.id), and  *)
(* handle_connect stores it as it is: user_id is a string.  sub is None    *)
(* when the token is missing or decode_token raises.  request.sid is the    *)
(* id of a connection that has just opened: it has no entry yet.            *)

(* any decoded subject is let in *)
token_accepted_unchecked(sub) == sub # None

token_accepted(sub) == sub # None /\ users[sub].exists /\ users[sub].is_verified

handle_connect(sid, sub) ==
    /\ sid \notin DOMAIN active_users
    /\ IF ~token_accepted(sub)
       THEN Reject("connect", sub, 0)
       ELSE
         /\ active_users' = [s \in DOMAIN active_users \cup {sid} |->
                                IF s = sid
                                THEN [user_id |-> JStr(sub), user_role |-> get_role_name(sub)]
                                ELSE active_users[s]]
         /\ Respond("connect", sub, 200)
         /\ UNCHANGED db

(* the server takes a connection that closes out of every room *)
handle_disconnect(sid) ==
    /\ active_users' = [s \in DOMAIN active_users \ {sid} |-> active_users[s]]
    /\ joined_rooms' = {m \in joined_rooms : m[1] # sid}
    /\ Answer("disconnect", None, 200)
    /\ UNCHANGED <<db, identity, chat, in_flight, product_images, locations, initiating, joining>>

(* leave_room and the left_chat event; nothing is said to a stranger *)
handle_leave_chat(sid, room_id) ==
    IF sid \notin DOMAIN active_users THEN Reject("leave_chat", None, 0)
    ELSE IF room_id = None THEN Reject("leave_chat", int_of(active_users[sid].user_id), 0)
    ELSE /\ joined_rooms' = joined_rooms \ {<<sid, room_id>>}
         /\ emitted' = [event |-> "left_chat", room_id |-> room_id]
         /\ Answer("leave_chat", int_of(active_users[sid].user_id), 200)
         /\ UNCHANGED <<db, active_users, identity, in_flight, product_images, locations,
                        message_rooms, room_participants, messages, initiating, joining>>

handle_typing(sid, room_id) ==
    IF sid \notin DOMAIN active_users THEN Reject("typing", None, 0)
    ELSE IF room_id = None THEN Reject("typing", int_of(active_users[sid].user_id), 0)
    ELSE /\ emitted' = [event |-> "user_typing", room_id |-> room_id]
         /\ Answer("typing", int_of(active_users[sid].user_id), 200)
         /\ UNCHANGED <<db, active_users, identity, in_flight, product_images, locations,
                        joined_rooms, message_rooms, room_participants, messages, initiating, joining>>

(* data.get('lat') or data.get('latitude'): a number 0 is falsy *)
coordinate(x) == IF x = JInt(0) THEN JNone ELSE x

socket_error(op, sub) ==
    /\ emitted' = [event |-> "error", room_id |-> None]
    /\ Answer(op, sub, 0)
    /\ UNCHANGED <<db, active_users, identity, in_flight, product_images, locations,
                   joined_rooms, message_rooms, room_participants, messages, initiating, joining>>

handle_agent_location_update(sid, lat, lng) ==
    IF sid \notin DOMAIN active_users THEN socket_error("agent_location", None)
    ELSE LET user_info == active_users[sid]
             sub == int_of(user_info.user_id)
         IN IF user_info.user_role # "delivery_agent" THEN socket_error("agent_location", sub)
            ELSE IF coordinate(lat) = JNone \/ coordinate(lng) = JNone
            THEN socket_error("agent_location", sub)
            ELSE IF ~int_ok(lat) \/ ~int_ok(lng) THEN socket_error("agent_location", sub)
            ELSE IF ~users[sub].exists THEN socket_error("agent_location", sub)
            ELSE /\ delivery_agents' = ensure_delivery_agent_profile(delivery_agents, sub)
                 /\ locations' = [locations EXCEPT ![sub] =
                                    [latitude |-> int_of(lat), longitude |-> int_of(lng)]]
                 /\ emitted' = [event |-> "agent_location_update", room_id |-> None]
                 /\ Answer("agent_location", sub, 200)
                 /\ UNCHANGED <<users, products, carts, orders, order_items, payments,
                                mpesa_callbacks, delivery_assignments, delivery_groups,
                                active_users, identity, in_flight, product_images, joined_rooms,
                                message_rooms, room_participants, messages, initiating, joining>>

handle_delivery_status_update(sid, order_id, requested_status) ==
    IF sid \notin DOMAIN active_users THEN Reject("socket_status", None, 0)
    ELSE LET user_info == active_users[sid]
             sub == int_of(user_info.user_id)
         IN IF order_id = None \/ requested_status = "" THEN Reject("socket_status", sub, 0)
            ELSE IF order_id \notin DOMAIN orders THEN Reject("socket_status", sub, 0)
            ELSE IF requested_status \notin OrderDeliveryStatus THEN Reject("socket_status", sub, 0)
            ELSE IF user_info.user_role = "delivery_agent"
                    /\ JInt(orders[order_id].delivery_agent_id) # user_info.user_id
            THEN Reject("socket_status", sub, 0)   \* an int never equals a str
            ELSE IF user_info.user_role \notin {"delivery_agent", "superadmin"}
            THEN Reject("socket_status", sub, 0)
            ELSE /\ orders' = status_orders(order_id, requested_status)
                 /\ delivery_assignments' = status_assignments(order_id, requested_status)
                 /\ delivery_agents' = status_agents(order_id, requested_status)
                 /\ Respond("socket_status", sub, 200)
                 /\ UNCHANGED <<users, products, carts, order_items, payments, mpesa_callbacks,
                                delivery_groups, active_users>>

-----------------------------------------------------------------------------
(* resources/auth.py and the user routes of app.py.  A string is a sequence *)
(* of characters, so that lower() and strip() are computed; a missing or   *)
(* empty field is the empty sequence.                                      *)

min_password_length == 8
token_ttl_hours == 24

lower_char(c) == CASE c = "A" -> "a" [] c = "B" -> "b" [] c = "S" -> "s" [] OTHER -> c

lower(str) == [i \in DOMAIN str |-> lower_char(str[i])]

RECURSIVE lstrip(_)
lstrip(str) == IF str # <<>> /\ Head(str) = " " THEN lstrip(Tail(str)) ELSE str

RECURSIVE rstrip(_)
rstrip(str) ==
    IF str # <<>> /\ str[Len(str)] = " " THEN rstrip(SubSeq(str, 1, Len(str) - 1)) ELSE str

strip(str) == rstrip(lstrip(str))

(* email.lower().strip() is left out: the input is looked up and stored as it is *)
normalised_email_as_given(email) == email

normalised_email(email) == strip(lower(email))

user_by_email(email) ==
    IF \E u \in UserIds : users[u].exists /\ credentials[u].email = email
    THEN CHOOSE u \in UserIds : users[u].exists /\ credentials[u].email = email
    ELSE None

check_password(u, password) == credentials[u].password_hash = password

tokens_of(u) == {t \in email_verification_tokens : t.user_id = u}

new_token == [user_id |-> None, token |-> tokens_issued, expires_at |-> now + token_ttl_hours]

(* superadmin may register itself *)
valid_roles_with_superadmin == RoleName

valid_roles == {"farmer", "buyer", "delivery_agent"}

Register_post(data) ==
    IF data.name = <<>> \/ data.email = <<>> \/ data.password = <<>> \/ data.role = ""
    THEN Reply("register", None, 400) /\ UNCHANGED <<db, active_users, identity>>
    ELSE IF Len(data.password) < min_password_length
    THEN Reply("register", None, 400) /\ UNCHANGED <<db, active_users, identity>>
    ELSE IF data.role \notin valid_roles
    THEN Reply("register", None, 400) /\ UNCHANGED <<db, active_users, identity>>
    ELSE IF user_by_email(normalised_email(data.email)) # None
    THEN Reply("register", None, 400) /\ UNCHANGED <<db, active_users, identity>>
    ELSE /\ \E id \in NewUserIds : ~users[id].exists
         /\ tokens_issued < MaxTokens
         /\ LET id == CHOOSE i \in NewUserIds :
                         ~users[i].exists /\ \A j \in NewUserIds : ~users[j].exists => i <= j
            IN /\ users' = [users EXCEPT ![id] = [exists |-> TRUE, role |-> data.role,
                                                  is_verified |-> FALSE]]
               /\ credentials' = [credentials EXCEPT ![id] =
                                     [email |-> normalised_email(data.email),
                                      password_hash |-> data.password]]
               /\ email_verification_tokens' =
                      email_verification_tokens \cup {[new_token EXCEPT !.user_id = id]}
               /\ tokens_issued' = tokens_issued + 1
               /\ Reply("register", id, 201)   \* 201 whether or not the email was sent
               /\ UNCHANGED <<products, carts, orders, order_items, payments, mpesa_callbacks,
                              delivery_assignments, delivery_agents, delivery_groups,
                              active_users, now>>

(* the expiry is not looked at *)
token_expired_never(t) == FALSE

token_expired(t) == t.expires_at < now

(* the consumed token is kept *)
consume_token_kept(t) == email_verification_tokens

consume_token(t) == email_verification_tokens \ {t}

verify_email(token) ==
    IF ~\E t \in email_verification_tokens : t.token = token
    THEN Reply("verify_email", None, 400) /\ UNCHANGED <<db, active_users, identity>>
    ELSE LET verification_token == CHOOSE t \in email_verification_tokens : t.token = token
             user == verification_token.user_id
         IN IF token_expired(verification_token)
            THEN Reply("verify_email", None, 400) /\ UNCHANGED <<db, active_users, identity>>
            ELSE /\ users' = [users EXCEPT ![user].is_verified = TRUE]
                 /\ email_verification_tokens' = consume_token(verification_token)
                 /\ Reply("verify_email", user, 302)
                 /\ UNCHANGED <<products, carts, orders, order_items, payments, mpesa_callbacks,
                                delivery_assignments, delivery_agents, delivery_groups,
                                active_users, credentials, tokens_issued, now>>

(* the old token stays *)
without_existing_token_kept(user) == email_verification_tokens

(* EmailVerificationToken.query.filter_by(user_id=user.id).first(), deleted if there is one *)
without_existing_token(user) ==
    IF tokens_of(user) = {} THEN email_verification_tokens
    ELSE email_verification_tokens \ {CHOOSE t \in tokens_of(user) : TRUE}

(* sent is what send_email returns *)
ResendVerification_post(email, sent) ==
    IF email = <<>>
    THEN Reply("resend_verification", None, 400) /\ UNCHANGED <<db, active_users, identity>>
    ELSE LET user == user_by_email(normalised_email(email)) IN
         IF user = None
         THEN Reply("resend_verification", None, 404) /\ UNCHANGED <<db, active_users, identity>>
         ELSE IF users[user].is_verified
         THEN Reply("resend_verification", user, 400) /\ UNCHANGED <<db, active_users, identity>>
         ELSE /\ tokens_issued < MaxTokens
              /\ email_verification_tokens' =
                     without_existing_token(user) \cup {[new_token EXCEPT !.user_id = user]}
              /\ tokens_issued' = tokens_issued + 1
              /\ Reply("resend_verification", user, IF sent THEN 200 ELSE 500)
              /\ UNCHANGED <<db, active_users, credentials, now>>

(* the verified flag is not looked at *)
Login_post_unverified_too(email, password) ==
    IF email = <<>> \/ password = <<>>
    THEN Reply("login", None, 400) /\ UNCHANGED <<db, active_users, identity>>
    ELSE LET user == user_by_email(normalised_email(email)) IN
         IF user = None \/ ~check_password(user, password)
         THEN Reply("login", None, 401) /\ UNCHANGED <<db, active_users, identity>>
         ELSE Reply("login", user, 200) /\ UNCHANGED <<db, active_users, identity>>

(* last.sub of a 200 answer is the subject of the token issued *)
Login_post(email, password) ==
    IF email = <<>> \/ password = <<>>
    THEN Reply("login", None, 400) /\ UNCHANGED <<db, active_users, identity>>
    ELSE LET user == user_by_email(normalised_email(email)) IN
         IF user = None \/ ~check_password(user, password)
         THEN Reply("login", None, 401) /\ UNCHANGED <<db, active_users, identity>>
         ELSE IF ~users[user].is_verified
         THEN Reply("login", None, 403) /\ UNCHANGED <<db, active_users, identity>>
         ELSE Reply("login", user, 200) /\ UNCHANGED <<db, active_users, identity>>

(* app.py: update_user, no credential required.  data holds the fields     *)
(* present in the request; "username" is no column and setting it is not   *)
(* stored.  app.py never imports User: as the file stands the first line   *)
(* of the body raises NameError, answered 500.  Both that outcome and the  *)
(* body as written (User bound) are kept.                                  *)
update_user(id, data) ==
    \/ Reply("update_user", None, 500) /\ UNCHANGED <<db, active_users, identity>>
    \/ IF ~users[id].exists
       THEN Reply("update_user", None, 404) /\ UNCHANGED <<db, active_users, identity>>
       ELSE IF "email" \notin DOMAIN data
       THEN Reply("update_user", None, 200) /\ UNCHANGED <<db, active_users, identity>>
       ELSE IF \E u \in UserIds \ {id} : users[u].exists /\ credentials[u].email = data.email
       THEN Reply("update_user", None, 500) /\ UNCHANGED <<db, active_users, identity>>  \* users.email is unique
       ELSE /\ credentials' = [credentials EXCEPT ![id].email = data.email]
            /\ Reply("update_user", None, 200)
            /\ UNCHANGED <<db, active_users, email_verification_tokens, tokens_issued, now>>

(* the rows that point at user id through a column that cannot be null:    *)
(* session.delete(user) first sets the column of every related row to NULL *)
holds_rows(id) ==
    \/ \E p \in DOMAIN products : products[p].farmer_id = id
    \/ carts[id].exists
    \/ \E o \in DOMAIN orders : orders[o].buyer_id = id
    \/ tokens_of(id) # {}
    \/ delivery_agents[id] # "none"
    \/ \E p \in room_participants : p.user_id = id
    \/ \E m \in DOMAIN messages : messages[m].sender_id = id

(* app.py: delete_user, no credential required.  As for update_user, the   *)
(* NameError of the file as it stands and the body as written are both     *)
(* kept.                                                                   *)
delete_user(id) ==
    \/ Reply("delete_user", None, 500) /\ UNCHANGED <<db, active_users, identity>>
    \/ IF ~users[id].exists
       THEN Reply("delete_user", None, 404) /\ UNCHANGED <<db, active_users, identity>>
       ELSE IF holds_rows(id)
       THEN Reply("delete_user", None, 500) /\ UNCHANGED <<db, active_users, identity>>  \* NOT NULL violated
       ELSE /\ users' = [users EXCEPT ![id].exists = FALSE]
            /\ orders' = [o \in DOMAIN orders |->
                             [orders[o] EXCEPT
                                !.farmer_id = IF @ = id THEN None ELSE @,
                                !.delivery_agent_id = IF @ = id THEN None ELSE @]]
            /\ delivery_assignments' = [a \in DOMAIN delivery_assignments |->
                                           [delivery_assignments[a] EXCEPT
                                              !.agent_id = IF @ = id THEN None ELSE @]]
            /\ Reply("delete_user", None, 200)
            /\ UNCHANGED <<products, carts, order_items, payments, mpesa_callbacks,
                           delivery_agents, delivery_groups, active_users, identity>>

(* time passes *)
Tick ==
    /\ now + ClockStep <= MaxClock
    /\ now' = now + ClockStep
    /\ UNCHANGED <<db, active_users, last, credentials, email_verification_tokens, tokens_issued,
                   chat, in_flight, product_images, locations, joined_rooms, initiating, joining>>

-----------------------------------------------------------------------------
(* socket_events.py: chat.  emit(event, room_id) is the event sent back to *)
(* the caller or, for new_message, broadcast to the room.                  *)

emit(event, room_id) == emitted' = [event |-> event, room_id |-> room_id]

chat_error(op, sub) ==
    /\ emit("error", None)
    /\ Answer(op, sub, 0)
    /\ UNCHANGED <<db, active_users, identity, in_flight, product_images, message_rooms,
                   room_participants, messages, locations, joined_rooms, initiating, joining>>

participants_of(room_id) == {p.user_id : p \in {q \in room_participants : q.room_id = room_id}}

is_participant(room_id, user_id) ==
    \E p \in room_participants : p.room_id = room_id /\ p.user_id = user_id

(* every room counts as new: no existing direct room is looked for *)
direct_rooms_none(user_id, other_user_id) == {}

(* rooms with no order in which the rows of user_id and other_user_id number two *)
direct_rooms(user_id, other_user_id) ==
    {r \in DOMAIN message_rooms :
        /\ message_rooms[r].order_id = None
        /\ Cardinality({p \in room_participants :
                           p.room_id = r /\ p.user_id \in {user_id, other_user_id}}) = 2}

order_rooms(order_id) == {r \in DOMAIN message_rooms : message_rooms[r].order_id = order_id}

joined(op, sid, sub, room_id, rooms, participants) ==
    /\ message_rooms' = rooms
    /\ room_participants' = participants
    /\ emit("joined_chat", room_id)
    /\ Answer(op, sub, 200)
    /\ joined_rooms' = joined_rooms \cup {<<sid, room_id>>}      \* join_room
    /\ UNCHANGED <<db, active_users, identity, in_flight, product_images, messages, locations,
                   initiating>>

handle_join_chat(sid, order_id, other_user_id) ==
    /\ UNCHANGED joining
    /\ IF sid \notin DOMAIN active_users THEN chat_error("join_chat", None)
       ELSE LET user_id == int_of(active_users[sid].user_id)
                new_room == Len(message_rooms) + 1
            IN IF order_id # None
               THEN IF order_rooms(order_id) # {}
                    THEN \E room \in order_rooms(order_id) :
                            joined("join_chat", sid, user_id, room, message_rooms,
                                   room_participants \cup {[room_id |-> room, user_id |-> user_id]})
                    ELSE IF order_id \notin DOMAIN orders
                    THEN chat_error("join_chat", user_id)     \* foreign key, rolled back
                    ELSE /\ Len(message_rooms) < MaxRooms
                         /\ joined("join_chat", sid, user_id, new_room,
                                   Append(message_rooms, [order_id |-> order_id]),
                                   room_participants \cup {[room_id |-> new_room, user_id |-> user_id]})
               ELSE IF other_user_id # None
               THEN IF direct_rooms(user_id, other_user_id) # {}
                    THEN \E room \in direct_rooms(user_id, other_user_id) :
                            joined("join_chat", sid, user_id, room, message_rooms,
                                   room_participants \cup {[room_id |-> room, user_id |-> user_id]})
                    ELSE IF other_user_id = user_id
                    THEN chat_error("join_chat", user_id)     \* unique_room_participant, rolled back
                    ELSE IF ~users[other_user_id].exists
                    THEN chat_error("join_chat", user_id)     \* foreign key, rolled back
                    ELSE /\ Len(message_rooms) < MaxRooms
                         /\ joined("join_chat", sid, user_id, new_room,
                                   Append(message_rooms, [order_id |-> None]),
                                   room_participants \cup {[room_id |-> new_room, user_id |-> user_id],
                                                           [room_id |-> new_room, user_id |-> other_user_id]})
               ELSE chat_error("join_chat", user_id)

(* The same handler in two steps: the rooms are looked up in one, the      *)
(* room, the participant rows and join_room are committed in the other;    *)
(* handlers of other connections may run in between (one connection runs   *)
(* one handler at a time).  message_rooms has no unique constraint on       *)
(* order_id, and none over the pair of a direct room.                       *)
handle_join_chat_begin(sid, order_id, other_user_id) ==
    /\ sid \in DOMAIN active_users
    /\ \A r \in joining : r.sid # sid
    /\ order_id # None \/ other_user_id # None
    /\ LET user_id == int_of(active_users[sid].user_id)
           found == IF order_id # None THEN order_rooms(order_id)
                    ELSE direct_rooms(user_id, other_user_id)
       IN \E room \in (IF found = {} THEN {None} ELSE found) :
             joining' = joining \cup {[sid |-> sid, user_id |-> user_id, order_id |-> order_id,
                                       other_user_id |-> other_user_id, room |-> room]}
    /\ UNCHANGED <<db, active_users, identity, chat, last, in_flight, product_images,
                   locations, joined_rooms, initiating>>

handle_join_chat_commit(sid) ==
    \E r \in joining :
       /\ r.sid = sid
       /\ joining' = joining \ {r}
       /\ LET new_room == Len(message_rooms) + 1
              failed == /\ emit("error", None)
                        /\ Answer("join_chat", r.user_id, 0)
                        /\ UNCHANGED <<db, active_users, identity, in_flight, product_images,
                                       message_rooms, room_participants, messages, locations,
                                       joined_rooms, initiating>>
          IN IF r.room # None
             THEN joined("join_chat", sid, r.user_id, r.room, message_rooms,
                         room_participants \cup {[room_id |-> r.room, user_id |-> r.user_id]})
             ELSE IF r.order_id # None
             THEN IF r.order_id \notin DOMAIN orders THEN failed
                  ELSE /\ Len(message_rooms) < MaxRooms
                       /\ joined("join_chat", sid, r.user_id, new_room,
                                 Append(message_rooms, [order_id |-> r.order_id]),
                                 room_participants
                                    \cup {[room_id |-> new_room, user_id |-> r.user_id]})
             ELSE IF r.other_user_id = r.user_id \/ ~users[r.other_user_id].exists THEN failed
             ELSE /\ Len(message_rooms) < MaxRooms
                  /\ joined("join_chat", sid, r.user_id, new_room,
                            Append(message_rooms, [order_id |-> None]),
                            room_participants
                               \cup {[room_id |-> new_room, user_id |-> r.user_id],
                                     [room_id |-> new_room, user_id |-> r.other_user_id]})

(* the sender need not be in the room *)
sender_in_room_unchecked(room_id, user_id) == TRUE

sender_in_room(room_id, user_id) == is_participant(room_id, user_id)

handle_send_message(sid, room_id, content) ==
    IF sid \notin DOMAIN active_users THEN chat_error("send_message", None)
    ELSE LET user_id == int_of(active_users[sid].user_id) IN
         IF room_id = None \/ strip(content) = <<>> THEN chat_error("send_message", user_id)
         ELSE IF ~sender_in_room(room_id, user_id) THEN chat_error("send_message", user_id)
         ELSE IF room_id \notin DOMAIN message_rooms
         THEN chat_error("send_message", user_id)          \* foreign key, rolled back
         ELSE /\ Len(messages) < MaxMessages
              /\ messages' = Append(messages, [room_id |-> room_id, sender_id |-> user_id,
                                               content |-> strip(content)])
              /\ emit("new_message", room_id)
              /\ Answer("send_message", user_id, 200)
              /\ UNCHANGED <<db, active_users, identity, in_flight, product_images,
                             message_rooms, room_participants, locations, joined_rooms, initiating, joining>>

-----------------------------------------------------------------------------
(* Inputs *)

Item(p, q) == [product_id |-> p, quantity |-> q]

RawItems ==
    {Item(JInt(1), JInt(1)),
     Item(JInt(1), JInt(MaxStock)),
     Item(JInt(1), JInt(MaxStock + 1)),
     Item(JInt(2), JInt(1)),
     Item(JInt(2), JInt(0)),
     Item(JStr(2), JStr(1)),
     Item(JInt(2), JBad),
     Item(JInt(MissingProduct), JInt(1)),
     Item(JInt(MissingProduct), JInt(-1))}
RawItemLists == {<<>>} \cup {<<a>> : a \in RawItems} \cup {<<a, b>> : a, b \in RawItems}

CartRequests ==
    {<<Buyer1, l>> : l \in RawItemLists}
    \cup {<<s, <<>>>> : s \in {Farmer1, Unverified, Ghost}}

ShopCartRequests ==
    {<<Buyer1, <<>>>>,
     <<Buyer1, <<Item(JInt(1), JInt(1))>>>>,
     <<Buyer1, <<Item(JInt(1), JInt(MaxStock))>>>>,
     <<Buyer1, <<Item(JInt(1), JInt(MaxStock + 1))>>>>,
     <<Buyer1, <<Item(JInt(2), JInt(1))>>>>,
     <<Buyer1, <<Item(JInt(1), JInt(1)), Item(JInt(2), JInt(1))>>>>,
     <<Buyer1, <<Item(JInt(1), JInt(MaxStock)), Item(JInt(2), JInt(1))>>>>,
     <<Buyer1, <<Item(JInt(2), JInt(1)), Item(JInt(1), JInt(1))>>>>,
     <<Buyer2, <<Item(JInt(2), JInt(1))>>>>,
     <<Buyer2, <<Item(JInt(2), JInt(MaxStock))>>>>,
     <<Farmer1, <<>>>>}

ShippingAddressIds == {None, 1, 2}

NoEdit ==
    [has_price |-> FALSE, price |-> 0, has_quantity |-> FALSE, quantity |-> 0,
     has_is_available |-> FALSE, is_available |-> FALSE,
     image |-> "none", primary_image_id |-> JNone]

ProductEdits ==
    {<<Farmer1, 1, [NoEdit EXCEPT !.has_price = TRUE, !.price = 3000]>>,
     <<Farmer1, 1, [NoEdit EXCEPT !.has_quantity = TRUE, !.quantity = 1]>>,
     <<Farmer1, 1, [NoEdit EXCEPT !.has_quantity = TRUE, !.quantity = -1]>>,
     <<Farmer2, 2, [NoEdit EXCEPT !.has_is_available = TRUE, !.is_available = FALSE]>>,
     <<Farmer2, 2, [NoEdit EXCEPT !.has_is_available = TRUE, !.is_available = TRUE]>>,
     <<Farmer2, 1, [NoEdit EXCEPT !.has_price = TRUE, !.price = 3000]>>,
     <<Farmer1, MissingProduct, NoEdit>>,
     <<Buyer1, 1, NoEdit>>}

Checkout(payment_id) == <<"CHECKOUT", payment_id>>
Receipt == <<"RECEIPT", 1>>
Unknown == <<"CHECKOUT", 0>>

Nested(id, code, receipt) ==
    [empty |-> FALSE, nested |-> TRUE, n_id |-> id, n_code |-> code, n_receipt |-> receipt,
     f_id |-> NoValue, f_code |-> JNone, f_receipt |-> NoValue]
Flat(id, code, receipt) ==
    [empty |-> FALSE, nested |-> FALSE, n_id |-> NoValue, n_code |-> JNone, n_receipt |-> NoValue,
     f_id |-> id, f_code |-> code, f_receipt |-> receipt]
EmptyPayload == [Flat(NoValue, JNone, NoValue) EXCEPT !.empty = TRUE]

Payloads ==
    {EmptyPayload,
     Nested(Checkout(1), JInt(0), Receipt),
     Flat(Checkout(1), JStr(1), NoValue),
     Nested(Checkout(1), JInt(1), Receipt),
     Flat(Checkout(2), JBad, NoValue),
     Flat(Checkout(2), JInt(0), Receipt),
     Nested(Checkout(2), JBad, NoValue),
     Flat(Unknown, JInt(0), NoValue),
     Flat(NoValue, JInt(0), Receipt),
     Nested(Receipt, JInt(1), NoValue),
     [Nested(Checkout(1), JNone, NoValue) EXCEPT !.f_code = JStr(0)],
     [Nested(Checkout(2), JInt(0), NoValue) EXCEPT !.f_code = JInt(1)]}

PaymentPatches == {[payment_status |-> "refunded"], [payment_status |-> "bogus"]}

(* identity requests *)
Ann == <<"a">>
AnnCapitals == <<"A">>
AnnPadded == <<" ", "a", " ">>
Bob == <<"b">>
ShortPassword == <<"p", "a", "s", "s", "w", "o", "r">>
WrongPassword == <<"p", "a", "s", "s", "w", "o", "r", "t">>

Registration(email, password, role) ==
    [name |-> <<"n">>, email |-> email, password |-> password, role |-> role]

Registrations ==
    {Registration(Ann, GoodPassword, "buyer"),
     Registration(AnnCapitals, GoodPassword, "farmer"),
     Registration(AnnPadded, GoodPassword, "delivery_agent"),
     Registration(Bob, GoodPassword, "buyer"),
     Registration(<<"S", "1">>, GoodPassword, "buyer"),
     Registration(Bob, GoodPassword, "superadmin"),
     Registration(Bob, GoodPassword, "courier"),
     Registration(Bob, GoodPassword, ""),
     Registration(Bob, ShortPassword, "buyer"),
     Registration(Bob, <<>>, "buyer"),
     Registration(<<>>, GoodPassword, "buyer"),
     [Registration(Bob, GoodPassword, "buyer") EXCEPT !.name = <<>>]}

IdentityRegistrations ==
    {Registration(AnnPadded, GoodPassword, "buyer"),
     Registration(AnnCapitals, GoodPassword, "farmer"),
     Registration(Bob, GoodPassword, "delivery_agent"),
     Registration(Bob, ShortPassword, "buyer")}

TokenStrings == 0..(MaxTokens - 1)
LoginEmails == {AnnCapitals, Bob, <<"s", "8">>}
LoginPasswords == {GoodPassword, WrongPassword, <<>>}
ResendEmails == {AnnPadded, Bob, <<"s", "8">>, <<"s", "1">>, <<>>}
UserPatches == {[email |-> AnnCapitals], [email |-> Bob], [username |-> <<"n">>]}

-----------------------------------------------------------------------------
(* Specifications *)

Init ==
    /\ users = SeedUsers
    /\ products = SeedProducts
    /\ carts = [u \in UserIds |-> [exists |-> FALSE, items |-> <<>>]]
    /\ orders = <<>>
    /\ order_items = <<>>
    /\ payments = <<>>
    /\ mpesa_callbacks = <<>>
    /\ delivery_assignments = <<>>
    /\ delivery_agents = [u \in UserIds |-> "none"]
    /\ delivery_groups = <<>>
    /\ active_users = <<>>
    /\ last = [op |-> "init", sub |-> None, status |-> 0]
    /\ credentials = SeedCredentials
    /\ email_verification_tokens = {[user_id |-> Unverified, token |-> 0, expires_at |-> token_ttl_hours]}
    /\ tokens_issued = 1
    /\ now = 0
    /\ message_rooms = <<>>
    /\ room_participants = {}
    /\ messages = <<>>
    /\ emitted = [event |-> "none", room_id |-> None]
    /\ in_flight = [u \in UserIds |-> Idle]
    /\ product_images = <<>>
    /\ locations = [u \in UserIds |-> "none"]
    /\ joined_rooms = {}
    /\ initiating = {}
    /\ joining = {}

(* The shop: cart replacement, checkout and product edits *)
Next ==
    \/ \E r \in ShopCartRequests : CartResource_put(r[1], r[2])
    \/ \E sub \in {Buyer1, Buyer2, Farmer1, Unverified, Ghost}, a \in ShippingAddressIds :
          OrderList_post(sub, a)
    \/ \E e \in ProductEdits : update_product(e[1], e[2], e[3])

Spec == Init /\ [][Next]_vars

(* The cart: every shape of replace-cart request against a changing catalogue *)
NextCart ==
    \/ \E r \in CartRequests : CartResource_put(r[1], r[2])
    \/ \E e \in ProductEdits : update_product(e[1], e[2], e[3])

SpecCart == Init /\ [][NextCart]_vars

(* Payments: a buyer checks out one line at a time, pays, and the gateway *)
(* calls back                                                              *)
NextPay ==
    \/ CartResource_put(Buyer1, <<Item(JInt(1), JInt(1))>>)
    \/ OrderList_post(Buyer1, 1)
    \/ \E sub \in {Buyer1, Buyer2}, order_id \in 1..(MaxOrders + 1) :
          PaymentInit_post(sub, order_id)
    \/ \E payload \in Payloads : MpesaCallbackResource_post(payload)
    \/ \E data \in PaymentPatches : OrderDetail_patch(Admin, 1, data)

SpecPay == Init /\ [][NextPay]_vars

(* The ledger: the same without the superadmin's patch of payment_status *)
NextLedger ==
    \/ CartResource_put(Buyer1, <<Item(JInt(1), JInt(1))>>)
    \/ OrderList_post(Buyer1, 1)
    \/ \E sub \in {Buyer1, Buyer2}, order_id \in 1..(MaxOrders + 1) :
          PaymentInit_post(sub, order_id)
    \/ \E payload \in Payloads : MpesaCallbackResource_post(payload)

SpecLedger == Init /\ [][NextLedger]_vars

(* Two initiate-payment requests of one buyer, interleaved *)
PaymentRequests == {1, 2}

NextPayRace ==
    \/ CartResource_put(Buyer1, <<Item(JInt(1), JInt(1))>>)
    \/ OrderList_post(Buyer1, 1)
    \/ \E request \in PaymentRequests, sub \in {Buyer1, Buyer2}, order_id \in 1..(MaxOrders + 1) :
          PaymentInit_begin(request, sub, order_id)
    \/ \E request \in PaymentRequests : PaymentInit_commit(request)
    \/ \E payload \in {Nested(Checkout(1), JInt(0), Receipt), Flat(Checkout(1), JStr(1), NoValue)} :
          MpesaCallbackResource_post(payload)

SpecPayRace == Init /\ [][NextPayRace]_vars

(* Delivery: a buyer checks out one line at a time; the farmer and the    *)
(* admin assign agents; agents and the admin report progress over HTTP and *)
(* over the socket                                                         *)
Sids == {1}
ReportedStatuses == {"out_for_delivery", "delivered", "cancelled"}

NextDelivery ==
    \/ CartResource_put(Buyer1, <<Item(JInt(1), JInt(1))>>)
    \/ OrderList_post(Buyer1, 1)
    \/ \E order_id \in 1..MaxOrders, agent_id \in {Agent1, Agent2} :
          FarmerAssignDeliveryAgent_post(Farmer1, order_id, agent_id)
    \/ \E agent_id \in {Agent1, Buyer1}, order_ids \in {{1, 2}, {MaxOrders + 1}} :
          AssignDeliveryAgent_post(Admin, agent_id, order_ids, None)
    \/ \E sub \in {Agent1, Agent2}, order_id \in 1..MaxOrders, st \in ReportedStatuses :
          OrderStatusUpdateResource_patch(sub, order_id, st)
    \/ \E order_id \in 1..MaxOrders :
          OrderDetail_patch(Agent1, order_id, [delivery_status |-> "delivered"])
    \/ \E sid \in Sids, sub \in {Agent1, Admin} : handle_connect(sid, sub)
    \/ \E sid \in Sids : handle_disconnect(sid)
    \/ \E sid \in Sids, order_id \in 1..MaxOrders :
          handle_delivery_status_update(sid, order_id, "delivered")

SpecDelivery == Init /\ [][NextDelivery]_vars

(* The decorators: every protected operation called by a buyer, a farmer, *)
(* an agent, the admin, an unverified account and a subject with no row    *)
Callers == {Buyer1, Farmer1, Agent1, Admin, Unverified, Ghost}

NextAuth ==
    \/ \E sub \in Callers : CartResource_put(sub, <<Item(JInt(1), JInt(MaxStock))>>)
    \/ \E sub \in Callers : OrderList_post(sub, 1)
    \/ \E sub \in Callers :
          update_product(sub, 1, [NoEdit EXCEPT !.has_is_available = TRUE, !.is_available = FALSE])
    \/ \E sub \in Callers : PaymentInit_post(sub, 1)
    \/ \E sub \in Callers : OrderDetail_patch(sub, 1, [status |-> "completed"])
    \/ \E sub \in Callers : FarmerAssignDeliveryAgent_post(sub, 1, Agent1)
    \/ \E sub \in Callers : AssignDeliveryAgent_post(sub, Agent1, {1}, None)
    \/ \E sub \in Callers : OrderStatusUpdateResource_patch(sub, 1, "assigned")
    \/ \E sub \in Callers : DeliveryGroupList_post(sub, "Nairobi", {})
    \/ \E sub \in Callers : DeliveryGroupDetail_patch(sub, 1, [status |-> "closed"])
    \/ \E sub \in Callers : DeliveryAgentStatusResource_patch(sub, [is_available |-> FALSE])

SpecAuth == Init /\ [][NextAuth]_vars

(* Two buyers fill their carts and check out with no lock between them    *)
RaceBuyers == {Buyer1, Buyer2}

NextRace ==
    \/ \E sub \in RaceBuyers, q \in 1..MaxStock :
          CartResource_put(sub, <<Item(JInt(1), JInt(q))>>)
    \/ \E sub \in RaceBuyers : CartResource_put(sub, <<Item(JInt(2), JInt(1)), Item(JInt(1), JInt(1))>>)
    \/ \E sub \in RaceBuyers \cup {Ghost}, a \in {1, None} : OrderList_begin(sub, a)
    \/ \E sub \in RaceBuyers : OrderList_commit(sub)

SpecRace == Init /\ [][NextRace]_vars

(* Reading an order while its agent is assigned and reassigned *)
Readers == {Buyer1, Buyer2, Farmer1, Farmer2, Agent1, Agent2, Admin, Unverified}

NextAccess ==
    \/ CartResource_put(Buyer1, <<Item(JInt(1), JInt(1))>>)
    \/ OrderList_post(Buyer1, 1)
    \/ \E agent_id \in {Agent1, Agent2} : FarmerAssignDeliveryAgent_post(Farmer1, 1, agent_id)
    \/ \E agent_id \in {Agent1, Agent2} : AssignDeliveryAgent_post(Admin, agent_id, {1}, None)
    \/ \E sub \in Readers, order_id \in 1..(MaxOrders + 1) : OrderDetail_get(sub, order_id)
    \/ \E sub \in Readers, order_id \in 1..(MaxOrders + 1) : OrderTrackingResource_get(sub, order_id)

SpecAccess == Init /\ [][NextAccess]_vars

(* The catalogue: farmers and the admin create and edit products and their *)
(* images                                                                  *)
NewProduct == [valid |-> TRUE, price |-> 2500, quantity |-> 1, image |-> "none"]

NewProducts ==
    {NewProduct,
     [NewProduct EXCEPT !.image = "ok"],
     [NewProduct EXCEPT !.image = "fails"],
     [NewProduct EXCEPT !.valid = FALSE],
     [NewProduct EXCEPT !.price = -1, !.image = "ok"]}

ImageEdits ==
    {[NoEdit EXCEPT !.image = "ok"],
     [NoEdit EXCEPT !.image = "fails", !.has_price = TRUE, !.price = 3000],
     [NoEdit EXCEPT !.image = "ok", !.primary_image_id = JInt(MaxImages)],
     [NoEdit EXCEPT !.primary_image_id = JInt(0), !.has_price = TRUE, !.price = 3000],
     [NoEdit EXCEPT !.primary_image_id = JBad],
     [NoEdit EXCEPT !.primary_image_id = JStr(1)],
     [NoEdit EXCEPT !.primary_image_id = JInt(1), !.has_quantity = TRUE, !.quantity = -1]}
       \cup {[NoEdit EXCEPT !.primary_image_id = JInt(i), !.has_is_available = TRUE] : i \in 1..MaxImages}

NextProducts ==
    \/ \E sub \in {Farmer1, Admin}, data \in NewProducts : create_product(sub, data)
    \/ \E sub \in {Farmer1, Farmer2, Admin, Buyer1}, id \in {1, MaxProducts}, data \in ImageEdits :
          update_product(sub, id, data)

SpecProducts == Init /\ [][NextProducts]_vars

(* Delivery quotes: carts of every weight around the threshold, one of     *)
(* them with a product created without a weight                            *)
QuoteCarts ==
    {<<Item(JInt(1), JInt(1))>>,
     <<Item(JInt(1), JInt(MaxStock))>>,
     <<Item(JInt(2), JInt(MaxStock))>>,
     <<Item(JInt(1), JInt(1)), Item(JInt(2), JInt(1))>>,
     <<Item(JInt(MaxProducts), JInt(1))>>,
     <<Item(JInt(1), JInt(MaxStock)), Item(JInt(MaxProducts), JInt(1))>>}

NextQuote ==
    \/ create_product(Farmer1, NewProduct)
    \/ \E raw_items \in QuoteCarts : CartResource_put(Buyer1, raw_items)
    \/ OrderList_post(Buyer1, 1)

SpecQuote == Init /\ [][NextQuote]_vars

(* Users: accounts with and without rows of their own, and the            *)
(* unauthenticated delete                                                  *)
NextUsers ==
    \/ verify_email(0)
    \/ CartResource_put(Buyer1, <<Item(JInt(1), JInt(1))>>)
    \/ OrderList_post(Buyer1, 1)
    \/ \E agent_id \in {Agent1, Agent2} : FarmerAssignDeliveryAgent_post(Farmer1, 1, agent_id)
    \/ \E sub \in {Agent1, Agent2} : OrderStatusUpdateResource_patch(sub, 1, "out_for_delivery")
    \/ \E id \in {Buyer1, Buyer2, Farmer1, Farmer2, Agent1, Agent2, Unverified, Ghost} : delete_user(id)

SpecUsers == Init /\ [][NextUsers]_vars

(* PATCH on an order by every kind of caller, while the farmer assigns and *)
(* reassigns its agent                                                     *)
Patchers == {Buyer1, Farmer1, Agent1, Agent2, Admin, Unverified}

AgentPatches ==
    {[delivery_status |-> "delivered"],
     [delivery_status |-> "processing"],
     [delivery_status |-> "bogus"],
     [payment_status |-> "paid"],
     [payment_status |-> "paid", delivery_status |-> "returned"],
     <<>>}

AdminPatches ==
    {[payment_status |-> "paid", delivery_status |-> "returned"],
     [status |-> "cancelled", delivery_agent_id |-> Agent2],
     [payment_status |-> "bogus", status |-> "cancelled"],
     <<>>}

NextPatch ==
    \/ CartResource_put(Buyer1, <<Item(JInt(1), JInt(1))>>)
    \/ OrderList_post(Buyer1, 1)
    \/ \E agent_id \in {Agent1, Agent2} : FarmerAssignDeliveryAgent_post(Farmer1, 1, agent_id)
    \/ \E sub \in Patchers \ {Admin}, data \in AgentPatches : OrderDetail_patch(sub, 1, data)
    \/ \E data \in AdminPatches : OrderDetail_patch(Admin, 1, data)

SpecPatch == Init /\ [][NextPatch]_vars

(* Stock: two buyers add to their carts, replace them and check out, one  *)
(* request at a time, and no farmer edits                                  *)
NextStock ==
    \/ \E sub \in {Buyer1, Buyer2}, product_id \in {1, 2, None}, quantity \in {-1, 1} :
          add_to_cart(sub, product_id, quantity)
    \/ \E sub \in {Buyer1, Buyer2} : CartResource_put(sub, <<Item(JInt(1), JInt(MaxStock))>>)
    \/ \E sub \in {Buyer1, Buyer2} : OrderList_post(sub, 1)

SpecStock == Init /\ [][NextStock]_vars

(* The basket: every cart route and the checkout, for two buyers *)
BasketItems == {<<Buyer1, 1>>, <<Buyer1, 2>>, <<Buyer2, 1>>}

NextBasket ==
    \/ \E sub \in {Buyer1, Buyer2} : CartResource_get(sub)
    \/ \E sub \in {Buyer1, Farmer1} : get_cart(sub)
    \/ \E product_id \in {1, 2}, quantity \in {-1, 0, 1} : add_to_cart(Buyer1, product_id, quantity)
    \/ add_to_cart(Buyer2, 1, 1)
    \/ CartResource_put(Buyer1, <<Item(JInt(1), JInt(1)), Item(JInt(1), JInt(1))>>)
    \/ CartResource_put(Buyer1, <<Item(JInt(2), JInt(0)), Item(JInt(1), JInt(2))>>)
    \/ \E item_id \in BasketItems, quantity \in {None, 0, 2} :
          update_cart_item(Buyer1, item_id, quantity)
    \/ \E item_id \in BasketItems : remove_cart_item(Buyer1, item_id)
    \/ \E sub \in {Buyer1, Buyer2} : clear_cart(sub)
    \/ OrderList_post(Buyer1, 1)

SpecBasket == Init /\ [][NextBasket]_vars

(* The life of an order after checkout: every operation that writes to an  *)
(* order, while the catalogue's prices change                              *)
NextOrders ==
    \/ \E raw_items \in {<<Item(JInt(1), JInt(1))>>, <<Item(JInt(1), JInt(1)), Item(JInt(2), JInt(MaxStock))>>} :
          CartResource_put(Buyer1, raw_items)
    \/ OrderList_post(Buyer1, 1)
    \/ update_product(Farmer1, 1, [NoEdit EXCEPT !.has_price = TRUE, !.price = 3000])
    \/ PaymentInit_post(Buyer1, 1)
    \/ MpesaCallbackResource_post(Flat(Checkout(1), JInt(0), Receipt))
    \/ OrderDetail_patch(Admin, 1, [payment_status |-> "refunded", status |-> "cancelled"])
    \/ OrderDetail_patch(Agent1, 1, [delivery_status |-> "returned"])
    \/ FarmerAssignDeliveryAgent_post(Farmer1, 1, Agent1)
    \/ AssignDeliveryAgent_post(Admin, Agent2, {}, 1)
    \/ OrderStatusUpdateResource_patch(Agent1, 1, "delivered")
    \/ DeliveryGroupList_post(Admin, "Nairobi", {1})
    \/ DeliveryGroupDetail_patch(Admin, 1, [order_ids |-> {1, 2}])

SpecOrders == Init /\ [][NextOrders]_vars

(* Identity: registrations, verification links    , resends and logins    *)
(* while time passes                                                       *)
NextIdentity ==
    \/ \E data \in IdentityRegistrations : Register_post(data)
    \/ \E token \in TokenStrings : verify_email(token)
    \/ \E email \in ResendEmails, sent \in BOOLEAN : ResendVerification_post(email, sent)
    \/ \E email \in LoginEmails, password \in LoginPasswords : Login_post(email, password)
    \/ Tick

SpecIdentity == Init /\ [][NextIdentity]_vars

(* Accounts: every shape of registration, the unauthenticated user update *)
(* and logins                                                              *)
NextAccounts ==
    \/ \E data \in Registrations : Register_post(data)
    \/ \E id \in NewUserIds \cup {Ghost}, data \in UserPatches : update_user(id, data)
    \/ \E email \in LoginEmails : Login_post(email, GoodPassword)

SpecAccounts == Init /\ [][NextAccounts]_vars

(* Chat: the buyer on one connection, the farmer or an agent on the other, *)
(* an order to talk about, joins and messages                              *)
ChatSids == {1, 2}
ChatUsers == {Buyer1, Farmer1, Agent1}
Hello == <<" ", "h">>
Blank == <<" ">>

NextChat ==
    \/ CartResource_put(Buyer1, <<Item(JInt(1), JInt(1))>>)
    \/ OrderList_post(Buyer1, 1)
    \/ handle_connect(1, Buyer1)
    \/ \E sub \in {Farmer1, Agent1} : handle_connect(2, sub)
    \/ handle_disconnect(2)
    \/ \E sid \in ChatSids, order_id \in {1, MaxOrders + 1} : handle_join_chat(sid, order_id, None)
    \/ \E sid \in ChatSids, other_user_id \in ChatUsers \cup {Ghost, None} :
          handle_join_chat(sid, None, other_user_id)
    \/ \E sid \in ChatSids, room_id \in 0..MaxRooms, content \in {Hello, Blank} :
          handle_send_message(sid, room_id, content)

SpecChat == Init /\ [][NextChat]_vars

(* Presence: connections that come and go, with and without a good token, *)
(* and every socket event on both of them                                  *)
PresenceSids == {1, 2}

NextPresence ==
    \/ CartResource_put(Buyer1, <<Item(JInt(1), JInt(1))>>)
    \/ OrderList_post(Buyer1, 1)
    \/ \E sub \in {None, Unverified, Ghost, Agent1, Admin} : handle_connect(1, sub)
    \/ handle_connect(2, None)
    \/ \E sid \in PresenceSids : handle_disconnect(sid)
    \/ \E sid \in PresenceSids : handle_join_chat(sid, 1, None)
    \/ \E sid \in PresenceSids : handle_send_message(sid, 1, Hello)
    \/ \E sid \in PresenceSids, room_id \in {None, 1} : handle_leave_chat(sid, room_id)
    \/ \E sid \in PresenceSids, room_id \in {None, 1} : handle_typing(sid, room_id)
    \/ \E sid \in PresenceSids, lat \in {JNone, JBad, JInt(0), JInt(1)} :
          handle_agent_location_update(sid, lat, JInt(1))
    \/ \E sid \in PresenceSids : handle_delivery_status_update(sid, 1, "delivered")

SpecPresence == Init /\ [][NextPresence]_vars

(* Two connections whose join_chat handlers interleave *)
NextJoinRace ==
    \/ CartResource_put(Buyer1, <<Item(JInt(1), JInt(1))>>)
    \/ OrderList_post(Buyer1, 1)
    \/ handle_connect(1, Buyer1)
    \/ handle_connect(2, Farmer1)
    \/ \E sid \in ChatSids : handle_disconnect(sid)
    \/ \E sid \in ChatSids : handle_join_chat_begin(sid, 1, None)
    \/ handle_join_chat_begin(1, None, Farmer1)
    \/ handle_join_chat_begin(2, None, Buyer1)
    \/ \E sid \in ChatSids : handle_join_chat_commit(sid)

SpecJoinRace == Init /\ [][NextJoinRace]_vars

-----------------------------------------------------------------------------
(* Checkout *)

line_short(line) ==
    \/ ~products[line.product_id].is_available
    \/ products[line.product_id].quantity < line.quantity

(* C1: a successful create-order-from-cart request appends exactly one     *)
(* order (pending / processing / placed) for the caller, one order item    *)
(* per cart line with the line's product, its quantity and the product's   *)
(* current unit price, lowers each purchased product's stock by the line   *)
(* quantity, leaves every other product alone and empties the caller's     *)
(* cart.                                                                   *)
C1_CheckoutCreatesOrder ==
    [][(last'.op = "create_order" /\ last'.status = 201) =>
         LET sub == last'.sub
             lines == carts[sub].items
             n == Len(orders)
             m == Len(order_items)
         IN /\ Len(orders') = n + 1
            /\ SubSeq(orders', 1, n) = orders
            /\ orders'[n + 1].buyer_id = sub
            /\ orders'[n + 1].payment_status = "pending"
            /\ orders'[n + 1].delivery_status = "processing"
            /\ orders'[n + 1].status = "placed"
            /\ Len(order_items') = m + Len(lines)
            /\ SubSeq(order_items', 1, m) = order_items
            /\ \A i \in 1..Len(lines) :
                  /\ order_items'[m + i].order_id = n + 1
                  /\ order_items'[m + i].product_id = lines[i].product_id
                  /\ order_items'[m + i].quantity = lines[i].quantity
                  /\ order_items'[m + i].price_at_purchase = products[lines[i].product_id].price
                  /\ products'[lines[i].product_id].quantity
                        = products[lines[i].product_id].quantity - lines[i].quantity
            /\ \A p \in ProductIds :
                  /\ (\A i \in 1..Len(lines) : lines[i].product_id # p) => products'[p] = products[p]
                  /\ [products'[p] EXCEPT !.quantity = 0] = [products[p] EXCEPT !.quantity = 0]
            /\ carts'[sub].items = <<>>
            /\ \A u \in UserIds \ {sub} : carts'[u] = carts[u]
      ]_vars

(* Buyer1 has just checked out a two-line cart, which took the last unit   *)
(* of the first product                                                    *)
C1_Witness ==
    /\ last = [op |-> "create_order", sub |-> Buyer1, status |-> 201]
    /\ \E i, j \in 1..Len(order_items) :
          /\ i # j
          /\ order_items[i].order_id = Len(orders)
          /\ order_items[j].order_id = Len(orders)
          /\ order_items[i].product_id = 1
          /\ order_items[j].product_id = 2
    /\ products[1].quantity = 0
    /\ products[2].quantity = MaxStock - 1
    /\ carts[Buyer1].items = <<>>

(* C2: a checkout of a cart with any line whose product is unavailable or  *)
(* short of stock answers 400 and writes nothing: orders, order items,     *)
(* stock and the cart stay as they were, also when earlier lines are fine. *)
C2_CheckoutAllOrNothing ==
    [][\A sub \in UserIds :
         (/\ last'.op = "create_order" /\ last'.sub = sub
          /\ users[sub].exists /\ users[sub].is_verified
          /\ \E i \in 1..Len(carts[sub].items) : line_short(carts[sub].items[i]))
         => /\ last'.status = 400
            /\ orders' = orders /\ order_items' = order_items
            /\ products' = products /\ carts' = carts
      ]_vars

(* Buyer1's checkout was refused while the first line of the cart was fine *)
(* and the second product had been bought up by Buyer2                     *)
C2_Witness ==
    /\ last = [op |-> "create_order", sub |-> Buyer1, status |-> 400]
    /\ Len(carts[Buyer1].items) = 2
    /\ ~line_short(carts[Buyer1].items[1])
    /\ line_short(carts[Buyer1].items[2])
    /\ products[carts[Buyer1].items[2].product_id].is_available
    /\ \E o \in DOMAIN orders : orders[o].buyer_id = Buyer2

-----------------------------------------------------------------------------
(* Cart replacement *)

entry_parsed(e) == int_ok(e.product_id) /\ int_ok(e.quantity)
entry_positive(e) == entry_parsed(e) /\ int_of(e.quantity) > 0
entry_missing(e) == entry_positive(e) /\ int_of(e.product_id) \notin ProductIds
entry_short(e) ==
    /\ entry_positive(e)
    /\ int_of(e.product_id) \in ProductIds
    /\ \/ ~products[int_of(e.product_id)].is_available
       \/ products[int_of(e.product_id)].quantity < int_of(e.quantity)

validated_entries(raw_items) ==
    LET kept == SelectSeq(raw_items, entry_positive)
    IN [i \in 1..Len(kept) |->
           [product_id |-> int_of(kept[i].product_id), quantity |-> int_of(kept[i].quantity)]]

(* C9: replace-cart is all or nothing.  Entries with a quantity <= 0 are   *)
(* left out; a positive entry naming a product that does not exist (404),  *)
(* is unavailable or exceeds the stock (400) fails the whole request and   *)
(* the cart keeps its previous items; on success the cart's items are      *)
(* exactly the validated entries.                                          *)
C9_ReplaceCartAllOrNothing ==
    [][\A r \in CartRequests :
         LET sub == r[1]
             raw_items == r[2]
             entries == {raw_items[i] : i \in 1..Len(raw_items)}
         IN (CartResource_put(sub, raw_items) /\ buyer_required(sub) = 200) =>
              /\ (\E e \in entries : entry_missing(e) \/ entry_short(e))
                    => last'.status \in {400, 404} /\ carts' = carts
              /\ ((\E e \in entries : entry_missing(e))
                  /\ \A e \in entries : entry_parsed(e) /\ ~entry_short(e))
                    => last'.status = 404
              /\ ((\E e \in entries : entry_short(e)) /\ \A e \in entries : ~entry_missing(e))
                    => last'.status = 400
              /\ last'.status = 200 =>
                    /\ carts'[sub].items = validated_entries(raw_items)
                    /\ \A u \in UserIds \ {sub} : carts'[u] = carts[u]
              /\ last'.status # 200 => carts' = carts
      ]_vars

(* A replace was refused for a missing product while the cart held two     *)
(* lines, which it kept                                                    *)
C9_Witness ==
    /\ last = [op |-> "replace_cart", sub |-> Buyer1, status |-> 404]
    /\ Len(carts[Buyer1].items) = 2

-----------------------------------------------------------------------------
(* Payments *)

result_code(payload) ==
    IF payload.nested /\ payload.n_code # JNone THEN payload.n_code ELSE payload.f_code

receipt_taken(payload, payment_id) ==
    /\ extract_mpesa_receipt(payload) # NoValue
    /\ \E i \in DOMAIN payments :
          i # payment_id /\ payments[i].transaction_id = extract_mpesa_receipt(payload)

both_become(payment_id, status) ==
    /\ payments'[payment_id].status = status
    /\ orders'[payments[payment_id].order_id].payment_status = status

(* C4 as stated: for a callback whose checkout-request id is a payment's   *)
(* transaction id, a parsed result code of 0 makes the payment and its     *)
(* order paid, a non-zero one makes both failed.                           *)
C4_CallbackDecides ==
    [][\A payload \in Payloads, payment_id \in 1..MaxPayments :
         (/\ MpesaCallbackResource_post(payload)
          /\ ~payload.empty
          /\ payment_id \in DOMAIN payments
          /\ payments[payment_id].transaction_id = extract_checkout_request_id(payload)
          /\ int_ok(result_code(payload)))
         => IF int_of(result_code(payload)) = 0
            THEN both_become(payment_id, "paid")
            ELSE both_become(payment_id, "failed")
      ]_vars

(* What the callback does decide: the same outcome as C4 states, except    *)
(* that a successful callback whose receipt number is already another      *)
(* payment's transaction id is answered 500 and changes nothing            *)
(* (Payment.transaction_id is unique, the commit fails and is rolled back).*)
C4_CallbackDecidesUnlessReceiptTaken ==
    [][\A payload \in Payloads, payment_id \in 1..MaxPayments :
         (/\ MpesaCallbackResource_post(payload)
          /\ ~payload.empty
          /\ payment_id \in DOMAIN payments
          /\ payments[payment_id].transaction_id = extract_checkout_request_id(payload)
          /\ int_ok(result_code(payload)))
         => IF int_of(result_code(payload)) # 0
            THEN both_become(payment_id, "failed")
            ELSE IF receipt_taken(payload, payment_id)
            THEN last'.status = 500 /\ UNCHANGED db
            ELSE both_become(payment_id, "paid")
      ]_vars

(* One callback has made a payment and its order paid, another has made a  *)
(* payment and its order failed                                            *)
C4_Witness ==
    /\ last = [op |-> "mpesa_callback", sub |-> None, status |-> 200]
    /\ \E i, j \in DOMAIN payments :
          /\ payments[i].status = "paid" /\ orders[payments[i].order_id].payment_status = "paid"
          /\ payments[j].status = "failed" /\ orders[payments[j].order_id].payment_status = "failed"

(* C5: initiate-payment by the order's buyer answers 400 when the order's  *)
(* payment-status is not pending, creating no payment and leaving the      *)
(* order alone; when it is pending it creates exactly one payment (amount  *)
(* the order's total_price, method mpesa_stk, status initiated, the        *)
(* transaction id the adapter's checkout-request id) and the order's       *)
(* payment-status becomes initiated.                                       *)
C5_InitiatePayment ==
    [][\A sub \in {Buyer1, Buyer2}, order_id \in 1..MaxOrders :
         (/\ PaymentInit_post(sub, order_id)
          /\ order_id \in DOMAIN orders
          /\ orders[order_id].buyer_id = sub)
         => IF orders[order_id].payment_status # "pending"
            THEN last'.status = 400 /\ payments' = payments /\ orders' = orders
            ELSE LET n == Len(payments) IN
                 /\ last'.status = 200
                 /\ Len(payments') = n + 1
                 /\ SubSeq(payments', 1, n) = payments
                 /\ payments'[n + 1].order_id = order_id
                 /\ payments'[n + 1].amount = orders[order_id].total_price
                 /\ payments'[n + 1].method = "mpesa_stk"
                 /\ payments'[n + 1].status = "initiated"
                 /\ payments'[n + 1].transaction_id = initiate_stk_push(n + 1).checkout_request_id
                 /\ orders' = [orders EXCEPT ![order_id].payment_status = "initiated"]
      ]_vars

(* A second payment was initiated for a pending order after the only       *)
(* other order had been refunded and refused                               *)
C5_Witness ==
    /\ last = [op |-> "initiate_payment", sub |-> Buyer1, status |-> 200]
    /\ Len(payments) = 2
    /\ payments[2].status = "initiated"
    /\ orders[payments[2].order_id].payment_status = "initiated"
    /\ orders[1].payment_status = "refunded"

-----------------------------------------------------------------------------
(* Delivery *)

assignment_rows(order_id) ==
    {i \in DOMAIN delivery_assignments : delivery_assignments[i].order_id = order_id}

at_most_one_assignment == \A o \in DOMAIN orders : Cardinality(assignment_rows(o)) <= 1

just_assigned(O, G) ==
    /\ \E i \in DOMAIN delivery_assignments' :
          /\ delivery_assignments'[i].order_id = O
          /\ delivery_assignments'[i].agent_id = G
          /\ delivery_assignments'[i].status = "assigned"
          /\ \A j \in DOMAIN delivery_assignments' : delivery_assignments'[j].order_id = O => j = i
    /\ orders'[O].delivery_agent_id = G
    /\ orders'[O].delivery_status =
          (IF orders[O].delivery_status \in {"processing", "assigned"}
           THEN "assigned" ELSE orders[O].delivery_status)
    /\ delivery_agents'[G] = "unavailable"

(* C6: under farmer-assign and admin bulk-assign every order has at most   *)
(* one DeliveryAssignment row; right after agent G is assigned to order O  *)
(* that row has agent G and status assigned, O's delivery agent is G, O's  *)
(* delivery-status is assigned if it was processing or assigned and is     *)
(* otherwise unchanged, and G's profile is unavailable.                    *)
C6_AssignIsUpsert ==
    /\ []at_most_one_assignment
    /\ [][/\ (last'.op = "farmer_assign" /\ last'.status = 200) =>
               \A O \in 1..MaxOrders, G \in UserIds :
                  FarmerAssignDeliveryAgent_post(last'.sub, O, G) => just_assigned(O, G)
          /\ (last'.op = "admin_assign" /\ last'.status = 200) =>
               \A G \in UserIds, order_ids \in SUBSET (1..(MaxOrders + 1)) :
                  AssignDeliveryAgent_post(last'.sub, G, order_ids, None) =>
                     \A O \in order_ids \cap DOMAIN orders : just_assigned(O, G)
         ]_vars

(* The farmer moved an order that was already out for delivery to Agent2:  *)
(* its one row was rewritten and its delivery-status kept                  *)
C6_Witness ==
    /\ last = [op |-> "farmer_assign", sub |-> Farmer1, status |-> 200]
    /\ \E o \in DOMAIN orders :
          /\ orders[o].delivery_agent_id = Agent2
          /\ orders[o].delivery_status = "out_for_delivery"
          /\ \E i \in assignment_rows(o) :
                delivery_assignments[i].agent_id = Agent2 /\ delivery_assignments[i].status = "assigned"
    /\ delivery_agents[Agent1] = "unavailable"
    /\ delivery_agents[Agent2] = "unavailable"

(* C7: whenever an operation moves an order's delivery-status to delivered *)
(* and the order's agent then has no order that is not delivered, the      *)
(* agent's profile is available after the operation; if the agent still    *)
(* has another order that is not delivered, the operation leaves the       *)
(* agent's availability as it was.                                         *)
C7_DeliveredReleasesAgent ==
    [][\A O \in DOMAIN orders :
         LET G == orders'[O].delivery_agent_id IN
         (/\ O \in DOMAIN orders'
          /\ orders[O].delivery_status # "delivered"
          /\ orders'[O].delivery_status = "delivered"
          /\ G # None)
         => IF \A o \in DOMAIN orders' :
                  orders'[o].delivery_agent_id = G => orders'[o].delivery_status = "delivered"
            THEN delivery_agents'[G] = "available"
            ELSE delivery_agents'[G] = delivery_agents[G]
      ]_vars

(* C8: for every order that has a DeliveryAssignment and whose             *)
(* delivery-status is assigned, out_for_delivery, delivered, cancelled or  *)
(* returned, the order's latest assignment has the status the mapping      *)
(* gives: assigned, in_transit, delivered, failed, failed.                 *)
C8_AssignmentInLockstep ==
    \A o \in DOMAIN orders :
       (assignment_rows(o) # {} /\ orders[o].delivery_status \in DOMAIN STATUS_TO_ASSIGNMENT_STATUS)
       => LET i == CHOOSE i \in assignment_rows(o) : \A j \in assignment_rows(o) : j <= i
          IN delivery_assignments[i].status =
                CASE orders[o].delivery_status = "assigned" -> "assigned"
                  [] orders[o].delivery_status = "out_for_delivery" -> "in_transit"
                  [] orders[o].delivery_status = "delivered" -> "delivered"
                  [] OTHER -> "failed"

-----------------------------------------------------------------------------
(* Order amounts *)

items_of(table, order_id) == SelectSeq(table, LAMBDA item : item.order_id = order_id)

RECURSIVE sum_of_items(_)
sum_of_items(items) ==
    IF items = <<>> THEN 0
    ELSE Head(items).price_at_purchase * Head(items).quantity + sum_of_items(Tail(items))

amounts_add_up ==
    \A o \in DOMAIN orders :
       /\ orders[o].total_price = orders[o].total_items_amount + orders[o].delivery_cost
       /\ orders[o].total_items_amount = sum_of_items(items_of(order_items, o))

amounts_kept ==
    \A o \in DOMAIN orders :
       /\ o \in DOMAIN orders'
       /\ orders'[o].total_price = orders[o].total_price
       /\ orders'[o].total_items_amount = orders[o].total_items_amount
       /\ orders'[o].delivery_cost = orders[o].delivery_cost
       /\ items_of(order_items', o) = items_of(order_items, o)

(* C3: in every reachable state every order has total_price =              *)
(* total_items_amount + delivery_cost, and total_items_amount is the sum   *)
(* of price_at_purchase x quantity over the order's items; no later        *)
(* operation (order patch, payment initiation, callback, assignment,       *)
(* status update, product update) changes these amounts.                   *)
C3_AmountsFixedAtCheckout == []amounts_add_up /\ [][amounts_kept]_vars

(* A two-line order has been paid, refunded by the admin, assigned and     *)
(* delivered                                                               *)
C3_Witness ==
    /\ Len(orders) >= 1
    /\ Len(items_of(order_items, 1)) = 2
    /\ orders[1].payment_status = "refunded"
    /\ orders[1].delivery_status = "delivered"
    /\ orders[1].delivery_agent_id # None
    /\ \E i \in DOMAIN payments : payments[i].order_id = 1 /\ payments[i].status = "paid"

-----------------------------------------------------------------------------
(* The decorators *)

allowed_roles_of(op) ==
    CASE op = "replace_cart" -> {"buyer"}
      [] op = "initiate_payment" -> {"buyer"}
      [] op = "update_product" -> {"farmer"}
      [] op = "farmer_assign" -> {"farmer"}
      [] op = "agent_status" -> {"delivery_agent"}
      [] op \in {"admin_assign", "create_group", "patch_group"} -> {"superadmin"}
      [] op \in {"create_order", "patch_order", "update_status"} -> RoleName

ProtectedOps ==
    {"replace_cart", "initiate_payment", "update_product", "farmer_assign", "agent_status",
     "admin_assign", "create_group", "patch_group", "create_order", "patch_order", "update_status"}

authorised(sub, op) ==
    users[sub].exists /\ users[sub].is_verified /\ users[sub].role \in allowed_roles_of(op)

(* C10: the body of a protected handler runs, and state can change, only   *)
(* when the token's subject is an existing, verified user whose role the   *)
(* handler allows; otherwise the call is answered 404 (no such user), 403  *)
(* (unverified) or 403 (role not allowed), tested in that order, and       *)
(* nothing changes.                                                        *)
C10_DecoratorsGuard ==
    [][last'.op \in ProtectedOps =>
         LET sub == last'.sub
             op == last'.op
         IN /\ ~users[sub].exists => last'.status = 404
            /\ (users[sub].exists /\ ~users[sub].is_verified) => last'.status = 403
            /\ (users[sub].exists /\ users[sub].is_verified
                /\ users[sub].role \notin allowed_roles_of(op)) => last'.status = 403
            /\ ~authorised(sub, op) => UNCHANGED <<db, active_users>>
      ]_vars

(* With an order placed, an unverified buyer's replace-cart was refused    *)
C10_Witness ==
    /\ last = [op |-> "replace_cart", sub |-> Unverified, status |-> 403]
    /\ Len(orders) = 1
    /\ ~carts[Unverified].exists

-----------------------------------------------------------------------------
(* Identity *)

credentials_match(u, email, password) ==
    /\ users[u].exists
    /\ credentials[u].email = strip(lower(email))
    /\ credentials[u].password_hash = password

(* C11: login answers 200, with a token whose subject is the user's id,    *)
(* only for a user whose password matches and whose account is verified.   *)
(* A login with correct credentials (an email that lower-cased and         *)
(* stripped is the stored one, and the stored password) is answered 403    *)
(* while the account is unverified and 200 once it is verified; an account *)
(* made by Register starts unverified, only a successful verify-email for  *)
(* it makes it verified, and it stays verified ever after.                 *)
C11_LoginNeedsVerifiedAccount ==
    [][/\ last'.op = "login" =>
            \A email \in LoginEmails, password \in LoginPasswords :
               Login_post(email, password) =>
                  /\ \A u \in UserIds :
                        credentials_match(u, email, password) =>
                           IF users[u].is_verified
                           THEN last'.status = 200 /\ last'.sub = u
                           ELSE last'.status = 403
                  /\ last'.status = 200 =>
                        /\ credentials_match(last'.sub, email, password)
                        /\ users[last'.sub].is_verified
       /\ \A u \in NewUserIds :
            /\ (~users[u].exists /\ users'[u].exists) => ~users'[u].is_verified
            /\ (users[u].exists /\ ~users[u].is_verified /\ users'[u].is_verified) =>
                  last' = [op |-> "verify_email", sub |-> u, status |-> 302]
            /\ (users[u].exists /\ users[u].is_verified) =>
                  (users'[u].exists /\ users'[u].is_verified)
      ]_vars

(* A registered account, verified through its link, has logged in *)
C11_Witness ==
    /\ last.op = "login" /\ last.status = 200
    /\ last.sub \in NewUserIds
    /\ users[last.sub].is_verified
    /\ tokens_of(last.sub) = {}

emails_unique_ignoring_case ==
    \A u \in UserIds :
       users[u].exists =>
          /\ credentials[u].email = lower(credentials[u].email)
          /\ \A v \in UserIds \ {u} :
                users[v].exists => lower(credentials[v].email) # lower(credentials[u].email)

email_taken_ignoring_case(email) ==
    \E u \in UserIds : users[u].exists /\ lower(credentials[u].email) = lower(strip(email))

token_rows(token) == {t \in email_verification_tokens : t.token = token}

one_token_per_user ==
    /\ \A t \in email_verification_tokens : t.token < tokens_issued
    /\ \A t1, t2 \in email_verification_tokens :
          (t1.user_id = t2.user_id \/ t1.token = t2.token) => t1 = t2

(* C13: a verification token is accepted only while it is its user's       *)
(* current unconsumed token.  A successful verify deletes the token it     *)
(* used; a resend deletes the user's prior token and issues a fresh one    *)
(* (a user never holds two); no token string ever comes back; and a verify *)
(* with a token string that has no row is answered 400 and changes neither *)
(* the users nor the stored tokens.                                        *)
C13_TokenDeadOnceConsumedOrReplaced ==
    /\ []one_token_per_user
    /\ [][/\ last'.op = "verify_email" =>
               \A token \in TokenStrings :
                  verify_email(token) =>
                     /\ token_rows(token) = {} =>
                           /\ last'.status = 400
                           /\ users' = users
                           /\ email_verification_tokens' = email_verification_tokens
                     /\ last'.status = 302 =>
                           /\ token_rows(token) # {}
                           /\ email_verification_tokens' = email_verification_tokens \ token_rows(token)
          /\ \A email \in ResendEmails, sent \in BOOLEAN :
               (ResendVerification_post(email, sent) /\ last'.status \in {200, 500}) =>
               LET user == last'.sub IN
                  /\ \A t \in tokens_of(user) : t \notin email_verification_tokens'
                  /\ \E fresh \in email_verification_tokens' :
                        /\ fresh.user_id = user /\ fresh.token = tokens_issued
                        /\ email_verification_tokens' =
                              (email_verification_tokens \ tokens_of(user)) \cup {fresh}
          /\ \A t \in email_verification_tokens' \ email_verification_tokens :
               t.token >= tokens_issued
         ]_vars

(* Every token string drawn has been used, one was consumed by a verify   *)
(* and one replaced by a resend, none has expired, and a verify with a     *)
(* dead token string has just been answered 400                            *)
C13_Witness ==
    /\ last.op = "verify_email" /\ last.status = 400
    /\ tokens_issued = MaxTokens
    /\ now = 0
    /\ token_rows(0) = {} /\ ~users[Unverified].is_verified
    /\ \E u \in NewUserIds : users[u].exists /\ users[u].is_verified

(* C14: verify-email with a token whose stored expiry is earlier than the  *)
(* current time is answered 400 although the token string has a row; the   *)
(* user stays unverified and the token row stays.                          *)
C14_ExpiredTokenRejected ==
    [][last'.op = "verify_email" =>
         \A token \in TokenStrings :
            (verify_email(token) /\ \E t \in token_rows(token) : t.expires_at < now) =>
               /\ last'.status = 400
               /\ users' = users
               /\ email_verification_tokens' = email_verification_tokens
      ]_vars

(* Every token string has a row, all of them have expired, and a verify    *)
(* has just been answered 400 with the users still unverified              *)
C14_Witness ==
    /\ last.op = "verify_email" /\ last.status = 400
    /\ \A token \in TokenStrings :
          \E t \in token_rows(token) : t.expires_at < now /\ ~users[t.user_id].is_verified

registration_invalid(data) ==
    \/ data.name = <<>> \/ data.email = <<>> \/ data.password = <<>> \/ data.role = ""
    \/ Len(data.password) < 8
    \/ data.role \notin {"farmer", "buyer", "delivery_agent"}

(* C15: Register answers 400 and creates no user row and no verification   *)
(* token when a required field is missing, the password has fewer than 8   *)
(* characters or the role is not farmer, buyer or delivery_agent; so no    *)
(* account made by Register is a superadmin, and every account it makes    *)
(* starts unverified with exactly one verification token.                  *)
C15_RegisterValidates ==
    /\ [](\A u \in NewUserIds : users[u].exists => users[u].role # "superadmin")
    /\ [][last'.op = "register" =>
            \A data \in Registrations :
               Register_post(data) =>
                  /\ registration_invalid(data) =>
                        /\ last'.status = 400
                        /\ users' = users /\ credentials' = credentials
                        /\ email_verification_tokens' = email_verification_tokens
                  /\ \A u \in UserIds :
                        (~users[u].exists /\ users'[u].exists) =>
                           /\ users'[u].role \in {"farmer", "buyer", "delivery_agent"}
                           /\ ~users'[u].is_verified
                           /\ Cardinality({t \in email_verification_tokens' : t.user_id = u}) = 1
         ]_vars

(* One account has been registered and holds its one token; a further     *)
(* registration has just been answered 400                                 *)
C15_Witness ==
    /\ last.op = "register" /\ last.status = 400
    /\ \E u \in NewUserIds :
          /\ users[u].exists /\ ~users[u].is_verified
          /\ Cardinality(tokens_of(u)) = 1
    /\ \E u \in NewUserIds : ~users[u].exists

-----------------------------------------------------------------------------
(* Chat *)

caller(sid) == int_of(active_users[sid].user_id)

direct_room_of(A, B) ==
    {r \in DOMAIN message_rooms :
        message_rooms[r].order_id = None /\ participants_of(r) = {A, B}}

one_direct_room_per_pair ==
    \A A, B \in ChatUsers : Cardinality(direct_room_of(A, B)) <= 1

(* C16: with join_chat events handled one at a time there is, in every     *)
(* reachable state, at most one room with no linked order whose            *)
(* participants are exactly A and B; a join of the direct chat with B by A *)
(* (or with A by B) is answered with a room that has no order and whose    *)
(* participants are exactly A and B, and with the room the pair already    *)
(* has when it has one, no room being created.                             *)
C16_DirectRoomReused ==
    /\ []one_direct_room_per_pair
    /\ [][last'.op = "join_chat" =>
            \A sid \in ChatSids, B \in ChatUsers :
               (/\ sid \in DOMAIN active_users
                /\ handle_join_chat(sid, None, B)
                /\ emitted'.event = "joined_chat") =>
                  LET A == caller(sid)
                      room == emitted'.room_id
                  IN /\ room \in DOMAIN message_rooms'
                     /\ message_rooms'[room].order_id = None
                     /\ {p.user_id : p \in {q \in room_participants' : q.room_id = room}} = {A, B}
                     /\ direct_room_of(A, B) # {} =>
                           /\ room \in direct_room_of(A, B)
                           /\ message_rooms' = message_rooms
                           /\ room_participants' = room_participants
         ]_vars

(* The buyer has a direct room with the farmer and a later one with the    *)
(* agent, and the farmer's join has just been answered with the first      *)
C16_Witness ==
    /\ last = [op |-> "join_chat", sub |-> Farmer1, status |-> 200]
    /\ emitted = [event |-> "joined_chat", room_id |-> 1]
    /\ direct_room_of(Buyer1, Farmer1) = {1}
    /\ direct_room_of(Buyer1, Agent1) = {2}

senders_are_participants ==
    \A i \in DOMAIN messages : is_participant(messages[i].room_id, messages[i].sender_id)

(* C17: send_message from a connection whose user is not a participant of  *)
(* the target room is answered with an error event and creates no Message  *)
(* row and no broadcast; so in every reachable state the sender of every   *)
(* stored message is a participant of the message's room.                  *)
C17_OnlyParticipantsSend ==
    /\ []senders_are_participants
    /\ [][last'.op = "send_message" =>
            \A sid \in ChatSids, room_id \in 0..MaxRooms, content \in {Hello, Blank} :
               (/\ sid \in DOMAIN active_users
                /\ handle_send_message(sid, room_id, content)
                /\ ~is_participant(room_id, caller(sid))) =>
                  /\ emitted'.event = "error"
                  /\ messages' = messages
         ]_vars

(* The buyer and the farmer have a room with a message in it; the agent,   *)
(* in no room, has just been answered with an error and no row was added   *)
C17_Witness ==
    /\ last = [op |-> "send_message", sub |-> Agent1, status |-> 0]
    /\ emitted.event = "error"
    /\ \A r \in DOMAIN message_rooms : ~is_participant(r, Agent1)
    /\ direct_room_of(Buyer1, Farmer1) # {}
    /\ Len(messages) = 1

-----------------------------------------------------------------------------
(* Concurrent checkouts *)

(* C18: a checkout that has passed the availability loop commits whatever   *)
(* other checkouts committed meanwhile: it answers 201, adds its order and  *)
(* its lines with the quantities it checked, and leaves each product it     *)
(* bought at the stock it had loaded minus the quantity bought, not at the  *)
(* stock now in the database minus that quantity.  Two interleaved          *)
(* checkouts of one product therefore both succeed and the quantities in    *)
(* order items can add up to more than the stock there was.                 *)
C18_InterleavedCheckoutsBothSucceed ==
    [][\A sub \in RaceBuyers :
          OrderList_commit(sub) =>
             LET request == in_flight[sub] IN
             /\ last' = [op |-> "create_order", sub |-> sub, status |-> 201]
             /\ Len(orders') = Len(orders) + 1
             /\ \A p \in DOMAIN products :
                   /\ purchased(order_items', p) = purchased(order_items, p) + purchased(request.items, p)
                   /\ purchased(request.items, p) > 0 =>
                         products'[p].quantity = request.read[p].quantity - purchased(request.items, p)
      ]_vars

(* Both buyers' orders are in and the lines for product 1 exceed its stock *)
C18_Witness ==
    /\ Len(orders) = 2
    /\ orders[1].buyer_id # orders[2].buyer_id
    /\ last.op = "create_order" /\ last.status = 201
    /\ \A u \in UserIds : ~in_flight[u].active
    /\ purchased(order_items, 1) > SeedProducts[1].quantity
    /\ products[1].quantity >= 0

-----------------------------------------------------------------------------
(* Gateway callbacks *)

unmatched(payload) ==
    \/ extract_checkout_request_id(payload) = NoValue
    \/ \A i \in DOMAIN payments :
          payments[i].transaction_id # extract_checkout_request_id(payload)

(* C19: a callback whose checkout-request id is the transaction id of no   *)
(* payment, or that carries no id, leaves every payment and every order as *)
(* it was; when its body is not empty its one effect is one more audit row, *)
(* with no payment linked and the payload as received.                     *)
C19_UnmatchedCallbackOnlyAudited ==
    [][last'.op = "mpesa_callback" =>
          \A payload \in Payloads :
             (MpesaCallbackResource_post(payload) /\ unmatched(payload)) =>
                /\ payments' = payments
                /\ orders' = orders
                /\ UNCHANGED <<users, products, carts, order_items, delivery_assignments,
                               delivery_agents, delivery_groups>>
                /\ ~payload.empty =>
                      /\ last'.status = 200
                      /\ mpesa_callbacks' = Append(mpesa_callbacks,
                                                   [payment_id |-> None, payload |-> payload])
      ]_vars

(* A payment is waiting and a callback reporting success for an id that is *)
(* no payment's, and one with no id, have been recorded against no payment  *)
C19_Witness ==
    /\ last = [op |-> "mpesa_callback", sub |-> None, status |-> 200]
    /\ Len(mpesa_callbacks) = 2
    /\ mpesa_callbacks[1] = [payment_id |-> None, payload |-> Flat(Unknown, JInt(0), NoValue)]
    /\ mpesa_callbacks[2] = [payment_id |-> None, payload |-> Flat(NoValue, JInt(0), Receipt)]
    /\ Len(payments) >= 1
    /\ \A i \in DOMAIN payments : payments[i].status = "initiated"
    /\ orders[1].payment_status = "initiated"

(* C20: the audit trail is append-only and complete: every callback with a *)
(* body adds exactly one row holding the payload as received, whether or   *)
(* not a payment matched and whatever the result code, and the rows there  *)
(* were stay as they were.  (A body that is empty is answered 400 before   *)
(* any row is made; the statement is checked for the others.)              *)
C20_AuditTrailComplete ==
    [][last'.op = "mpesa_callback" =>
          \A payload \in Payloads :
             (MpesaCallbackResource_post(payload) /\ ~payload.empty) =>
                /\ Len(mpesa_callbacks') = Len(mpesa_callbacks) + 1
                /\ SubSeq(mpesa_callbacks', 1, Len(mpesa_callbacks)) = mpesa_callbacks
                /\ mpesa_callbacks'[Len(mpesa_callbacks')].payload = payload
      ]_vars

(* C21: a callback that matches a payment and whose result code is missing *)
(* or not a number, in the nested or in the flat shape, is processed as an *)
(* unsuccessful one: it is answered 200, the payment and its order become   *)
(* failed and the callback is recorded.                                    *)
C21_BadResultCodeMeansFailed ==
    [][last'.op = "mpesa_callback" =>
          \A payload \in Payloads :
             (/\ MpesaCallbackResource_post(payload)
              /\ ~payload.empty
              /\ ~unmatched(payload)
              /\ ~int_ok(result_code(payload))) =>
                LET payment_id == matching_payment(extract_checkout_request_id(payload)) IN
                /\ last'.status = 200
                /\ payments'[payment_id].status = "failed"
                /\ orders'[payments[payment_id].order_id].payment_status = "failed"
                /\ Len(mpesa_callbacks') = Len(mpesa_callbacks) + 1
      ]_vars

-----------------------------------------------------------------------------
(* Delivery status over the socket and over HTTP *)

socket_accepts(sid, order_id, requested_status) ==
    ENABLED (handle_delivery_status_update(sid, order_id, requested_status) /\ last'.status = 200)

http_accepts(sub, order_id, requested_status) ==
    ENABLED (OrderStatusUpdateResource_patch(sub, order_id, requested_status) /\ last'.status = 200)

(* C22: for a connection opened with a caller's login token, an order and  *)
(* a requested status, the socket's delivery_status_update is accepted when *)
(* and only when the HTTP update of the delivery status by that caller is   *)
(* accepted.                                                               *)
C22_SocketAndHttpAgree ==
    \A sid \in DOMAIN active_users, order_id \in DOMAIN orders, requested_status \in ReportedStatuses :
       socket_accepts(sid, order_id, requested_status)
          <=> http_accepts(int_of(active_users[sid].user_id), order_id, requested_status)

-----------------------------------------------------------------------------
(* Reading an order *)

party_to(sub, order_id) ==
    \/ orders[order_id].buyer_id = sub
    \/ orders[order_id].farmer_id = sub
    \/ orders[order_id].delivery_agent_id = sub
    \/ users[sub].role = "superadmin"

(* C23: get-order and order-tracking answer a verified caller with the     *)
(* order's data (200) when the caller is the order's buyer, its farmer, the *)
(* delivery agent it is assigned to now, or a superadmin, and with 403      *)
(* otherwise; they change nothing.  An agent the order was assigned to     *)
(* before a reassignment is answered 403.                                  *)
C23_OrderReadByPartiesOnly ==
    [][last'.op \in {"get_order", "track_order"} =>
          \A sub \in Readers, order_id \in DOMAIN orders :
             (/\ OrderDetail_get(sub, order_id) \/ OrderTrackingResource_get(sub, order_id)
              /\ any_authenticated_user(sub) = 200) =>
                /\ last'.status = IF party_to(sub, order_id) THEN 200 ELSE 403
                /\ UNCHANGED <<db, active_users, identity, chat, in_flight, product_images,
                               locations, joined_rooms, initiating, joining>>
      ]_vars

(* Order 1 went to agent 1, then to agent 2; agent 1 asks for its tracking *)
(* and is refused                                                          *)
C23_Witness ==
    /\ last = [op |-> "track_order", sub |-> Agent1, status |-> 403]
    /\ Len(orders) = 1
    /\ orders[1].delivery_agent_id = Agent2
    /\ delivery_agents[Agent1] = "unavailable"

-----------------------------------------------------------------------------
(* Products *)

owner_or_superadmin(sub, id) == products[id].farmer_id = sub \/ users[sub].role = "superadmin"

(* C24: update-product is permitted for the farmer who owns the product and *)
(* for a superadmin (neither is answered Forbidden), and for every other    *)
(* verified caller it does not succeed and leaves the product as it was.    *)
C24_OwnerOrSuperadminMayEdit ==
    [][last'.op = "update_product" =>
          \A sub \in {Farmer1, Farmer2, Admin, Buyer1}, id \in DOMAIN products, data \in ImageEdits :
             (update_product(sub, id, data) /\ any_authenticated_user(sub) = 200) =>
                IF owner_or_superadmin(sub, id)
                THEN last'.status # 403
                ELSE last'.status # 200 /\ products' = products /\ product_images' = product_images
      ]_vars

flagged_primary(id) == {i \in images_of(id) : product_images[i].is_primary}

one_primary_per_product ==
    \A id \in DOMAIN products :
       /\ Cardinality(flagged_primary(id)) <= 1
       /\ primary_image(id) = IF flagged_primary(id) = {} THEN None
                              ELSE image_uri(CHOOSE i \in flagged_primary(id) : TRUE)

-----------------------------------------------------------------------------
(* Delivery groups *)

(* C25: an order is put in a delivery group only while it is paid: every   *)
(* step that gives an order a delivery group it did not have, by creating a *)
(* group, by updating one or by the admin's bulk assignment, finds the      *)
(* order paid; orders that are not paid are left as they were.              *)
C25_GroupsHoldPaidOrders ==
    [][\A o \in DOMAIN orders :
          orders'[o].delivery_group_id # orders[o].delivery_group_id =>
             /\ orders'[o].delivery_group_id # None
             /\ orders[o].payment_status = "paid"
      ]_vars

-----------------------------------------------------------------------------
(* The delivery quote *)

RECURSIVE weight_of_products(_, _)
weight_of_products(cart_items, n) ==
    IF n = 0 THEN 0
    ELSE (IF n \in DOMAIN products THEN purchased(cart_items, n) * products[n].weight_per_unit ELSE 0)
         + weight_of_products(cart_items, n - 1)

quoted(order_id) == orders[order_id].delivery_cost

(* C28: the delivery cost quoted at checkout is 50.00 when the cart's total *)
(* weight (weight per unit times quantity, summed; a product without a     *)
(* weight counts 0) is at most 20, exactly 20 included, and 60.00 when it   *)
(* is more than 20; the currency is KES.                                   *)
C28_DeliveryCostByWeight ==
    [][(OrderList_post(Buyer1, 1) /\ last'.status = 201) =>
          LET cart_items == carts[Buyer1].items
              weight == weight_of_products(cart_items, MaxProducts)
          IN /\ delivery_quote(cart_items).amount = IF weight <= 20 THEN 5000 ELSE 6000
             /\ delivery_quote(cart_items).currency = "KES"
             /\ orders'[Len(orders')].delivery_cost = delivery_quote(cart_items).amount
      ]_vars

(* A first order weighing exactly 20, with a product that has no weight in *)
(* it, was quoted 50.00; a second, weighing 22, was quoted 60.00            *)
C28_Witness ==
    /\ Len(orders) = 2
    /\ MaxProducts \in DOMAIN products
    /\ purchased(SubSeq(order_items, 1, 2), 1) * products[1].weight_per_unit = 20
    /\ purchased(SubSeq(order_items, 1, 2), MaxProducts) = 1
    /\ products[MaxProducts].weight_per_unit = 0
    /\ quoted(1) = 5000
    /\ Len(order_items) = 3
    /\ order_items[3].product_id = 2
    /\ order_items[3].quantity * products[2].weight_per_unit = 22
    /\ quoted(2) = 6000

-----------------------------------------------------------------------------
(* Users *)

-----------------------------------------------------------------------------
(* PATCH on an order *)

order_fields ==
    {"buyer_id", "farmer_id", "delivery_agent_id", "delivery_group_id", "total_items_amount",
     "delivery_cost", "total_price", "payment_status", "delivery_status", "status"}

(* order o changes in the fields of set and in no other, to the values of data *)
only_set(o, data, set) ==
    /\ \A f \in set : orders'[o][f] = data[f]
    /\ \A f \in order_fields \ set : orders'[o][f] = orders[o][f]
    /\ \A other \in DOMAIN orders \ {o} : orders'[other] = orders[other]

(* C29: PATCH on an order by a verified caller changes the order only when *)
(* the caller is the delivery agent the order is assigned to now, who sets  *)
(* its delivery-status and nothing else, to any recognized value whatever   *)
(* the current one, or a superadmin, who sets the payment-status, the       *)
(* delivery-status, the status and the delivery agent that the request      *)
(* holds.  Every other caller, and the assigned agent whose request holds   *)
(* no recognized delivery-status, is answered 403 and the order is as it    *)
(* was.  No other table is written.                                        *)
C29_OrderPatchedByAgentOrSuperadmin ==
    [][last'.op = "patch_order" =>
          \A sub \in Patchers, data \in AgentPatches \cup AdminPatches :
             (/\ OrderDetail_patch(sub, 1, data)
              /\ any_authenticated_user(sub) = 200
              /\ 1 \in DOMAIN orders) =>
                /\ UNCHANGED <<users, products, carts, order_items, payments, mpesa_callbacks,
                               delivery_assignments, delivery_agents, delivery_groups>>
                /\ IF users[sub].role = "delivery_agent" /\ orders[1].delivery_agent_id = sub
                   THEN IF "delivery_status" \in DOMAIN data
                           /\ data.delivery_status \in OrderDeliveryStatus
                        THEN last'.status = 200 /\ only_set(1, data, {"delivery_status"})
                        ELSE last'.status = 403 /\ orders' = orders
                   ELSE IF users[sub].role = "superadmin"
                   THEN \/ /\ last'.status = 200
                           /\ only_set(1, data, DOMAIN data \cap {"payment_status", "delivery_status",
                                                                  "status", "delivery_agent_id"})
                        \/ last'.status = 500 /\ orders' = orders
                   ELSE last'.status = 403 /\ orders' = orders
      ]_vars

(* The agent of order 1 has put it back to processing, and a request of    *)
(* theirs with no recognized delivery-status has just been refused         *)
C29_Witness ==
    /\ last = [op |-> "patch_order", sub |-> Agent1, status |-> 403]
    /\ Len(orders) >= 1
    /\ orders[1].delivery_agent_id = Agent1
    /\ orders[1].delivery_status = "processing"
    /\ orders[1].payment_status = "pending"

-----------------------------------------------------------------------------
(* Stock *)

(* C30: with requests handled one at a time and no farmer editing the      *)
(* quantity, no product's stock is ever negative, and for every product the *)
(* stock plus the quantities of all order items of that product is the      *)
(* stock it began with, after any sequence of add-to-cart, replace-cart and *)
(* checkout by the buyers.                                                 *)
C30_StockConserved ==
    \A p \in DOMAIN products :
       /\ products[p].quantity >= 0
       /\ products[p].quantity + purchased(order_items, p) = SeedProducts[p].quantity

(* Two orders of different buyers have taken product 1's whole stock and   *)
(* part of product 2's; a buyer whose cart still asks for product 1 has     *)
(* just been refused                                                       *)
C30_Witness ==
    /\ last.op = "create_order" /\ last.status = 400
    /\ Len(orders) = 2
    /\ orders[1].buyer_id # orders[2].buyer_id
    /\ products[1].quantity = 0
    /\ purchased(order_items, 1) = MaxStock
    /\ purchased(order_items, 2) = 1
    /\ \E i \in DOMAIN carts[last.sub].items : carts[last.sub].items[i].product_id = 1

-----------------------------------------------------------------------------
(* C31: after any sequence of cart operations and checkouts every cart has  *)
(* at most one row per product and only quantities greater than 0 (a buyer  *)
(* has one cart record at most: carts.buyer_id is unique); add-to-cart for  *)
(* a product already in the cart answers 201 only by raising that row's     *)
(* quantity by the requested amount, with no row added, and it can do so    *)
(* whenever the product is available in the requested quantity and the sum  *)
(* stays positive.                                                          *)

cart_rows_well_formed ==
    \A b \in DOMAIN carts :
       /\ unique_cart_product(carts[b].items)
       /\ \A i \in DOMAIN carts[b].items : carts[b].items[i].quantity > 0
       /\ carts[b].items # <<>> => carts[b].exists

in_cart(b, p) == \E i \in DOMAIN carts[b].items : carts[b].items[i].product_id = p

quantity_in_cart(b, p) ==
    LET i == CHOOSE i \in DOMAIN carts[b].items : carts[b].items[i].product_id = p
    IN carts[b].items[i].quantity

-----------------------------------------------------------------------------
(* C32: a connection gets its entry in the presence table only through a    *)
(* connect whose token names an existing verified user, every such connect  *)
(* adds the entry, and only the connection's disconnect takes it away; a    *)
(* connect with a missing or invalid token, or for an unverified or unknown *)
(* user, is refused and leaves the table as it was; an event on a           *)
(* connection without an entry changes no table and joins no room.          *)

verified_user(sub) == sub \in UserIds /\ users[sub].exists /\ users[sub].is_verified

event_on(sid) ==
    \/ \E order_id \in {None, 1}, other_user_id \in {None, Buyer1} :
          handle_join_chat(sid, order_id, other_user_id)
    \/ \E room_id \in {None, 1} : handle_send_message(sid, room_id, Hello)
    \/ \E room_id \in {None, 1} : handle_leave_chat(sid, room_id)
    \/ \E room_id \in {None, 1} : handle_typing(sid, room_id)
    \/ \E lat \in {JNone, JBad, JInt(0), JInt(1)} : handle_agent_location_update(sid, lat, JInt(1))
    \/ \E requested_status \in ReportedStatuses :
          handle_delivery_status_update(sid, 1, requested_status)

C32_PresenceFromConnectToDisconnect ==
    [][\A sid \in PresenceSids :
          /\ (sid \notin DOMAIN active_users /\ sid \in DOMAIN active_users')
             => \E sub \in UserIds : handle_connect(sid, sub) /\ verified_user(sub)
          /\ (sid \in DOMAIN active_users /\ sid \notin DOMAIN active_users')
             => handle_disconnect(sid)
          /\ \A sub \in UserIds \cup {None} :
                handle_connect(sid, sub)
                => IF verified_user(sub)
                   THEN sid \in DOMAIN active_users'
                        /\ int_of(active_users'[sid].user_id) = sub
                   ELSE UNCHANGED <<active_users, db, identity, joined_rooms>>
          /\ handle_disconnect(sid) => sid \notin DOMAIN active_users'
          /\ (sid \notin DOMAIN active_users /\ event_on(sid))
             => UNCHANGED <<db, identity, active_users, message_rooms, room_participants,
                            messages, locations, product_images, joined_rooms>>]_vars

(* the first connection is in room 1; a send_message on the second, which *)
(* has no entry, has just been answered with an error                      *)
C32_Witness ==
    /\ 1 \in DOMAIN active_users /\ 2 \notin DOMAIN active_users
    /\ <<1, 1>> \in joined_rooms
    /\ last = [op |-> "send_message", sub |-> None, status |-> 0]
    /\ emitted.event = "error"
    /\ messages = <<>>

-----------------------------------------------------------------------------
(* C33: with requests handled one at a time and no superadmin patch of      *)
(* payment_status, an order is pending exactly when it has no Payment row,  *)
(* and otherwise its payment_status is the status of its most recently      *)
(* created Payment.                                                         *)

payments_of(order_id) == {i \in DOMAIN payments : payments[i].order_id = order_id}

latest_payment(order_id) ==
    CHOOSE i \in payments_of(order_id) : \A j \in payments_of(order_id) : j <= i

C33_OrderMirrorsPayment ==
    \A o \in DOMAIN orders :
       /\ orders[o].payment_status = "pending" <=> payments_of(o) = {}
       /\ payments_of(o) # {} => orders[o].payment_status = payments[latest_payment(o)].status

(* callbacks have failed the first order's payment and paid the second's *)
C33_Witness ==
    /\ Len(orders) = 2 /\ Len(payments) = 2
    /\ orders[1].payment_status = "failed"
    /\ orders[2].payment_status = "paid"
    /\ last.op = "mpesa_callback" /\ last.status = 200
    /\ Len(mpesa_callbacks) = MaxCallbacks

-----------------------------------------------------------------------------
(* C34: paid is final under callbacks: a payment that is paid, of an order  *)
(* that is paid, is not failed by any later callback, and neither is the    *)
(* order.                                                                   *)
C34_PaidIsFinal ==
    [][\A payload \in Payloads :
          MpesaCallbackResource_post(payload) =>
             \A i \in DOMAIN payments :
                (payments[i].status = "paid" /\ orders[payments[i].order_id].payment_status = "paid")
                => /\ payments'[i].status # "failed"
                   /\ orders'[payments[i].order_id].payment_status # "failed"
      ]_vars

-----------------------------------------------------------------------------
(* C35: however initiate-payment requests for one pending order interleave, *)
(* the order has at most one Payment row.                                   *)
C35_OnePaymentPerOrder ==
    \A o \in DOMAIN orders : Cardinality(payments_of(o)) <= 1

-----------------------------------------------------------------------------
(* C36: with requests handled one at a time, after any sequence of          *)
(* register, resend-verification and verify-email every user has at most    *)
(* one stored verification token and a verified user has none; a resend for *)
(* a verified user is refused and stores nothing, and a successful resend   *)
(* or verify leaves no token the user had before.                           *)

at_most_one_token ==
    \A u \in UserIds :
       /\ Cardinality(tokens_of(u)) <= 1
       /\ users[u].is_verified => tokens_of(u) = {}

C36_AtMostOneVerificationToken ==
    /\ []at_most_one_token
    /\ [][/\ \A email \in ResendEmails, sent \in BOOLEAN :
              ResendVerification_post(email, sent) =>
                 LET user == user_by_email(normalised_email(email)) IN
                 IF user # None /\ users[user].is_verified
                 THEN last'.status = 400 /\ UNCHANGED email_verification_tokens
                 ELSE user # None => email_verification_tokens' \cap tokens_of(user) = {}
          /\ \A token \in TokenStrings :
                (verify_email(token) /\ last'.status = 302) =>
                   /\ \E t \in email_verification_tokens : t.user_id = last'.sub
                   /\ \A t \in email_verification_tokens' : t.user_id # last'.sub]_vars

(* a user who registered and asked for a second token has just been        *)
(* verified with it; the seeded unverified user still holds a token         *)
C36_Witness ==
    /\ last.op = "verify_email" /\ last.status = 302
    /\ last.sub \in NewUserIds
    /\ users[last.sub].is_verified
    /\ tokens_of(last.sub) = {}
    /\ tokens_issued = MaxTokens
    /\ tokens_of(Unverified) # {}

-----------------------------------------------------------------------------
(* C37: however the join_chat handlers of different connections interleave, *)
(* there is at most one direct room per pair of users and at most one room  *)
(* per order.                                                               *)

one_room_per_order == \A o \in DOMAIN orders : Cardinality(order_rooms(o)) <= 1

C37_OneRoomUnderInterleaving == one_direct_room_per_pair /\ one_room_per_order

-----------------------------------------------------------------------------
(* C38: an assignment (by the farmer or by the superadmin) goes through     *)
(* whatever the availability of the agent it names, leaves that agent's     *)
(* profile unavailable and changes no other agent's profile: the agent an   *)
(* order is taken from stays as it was, and is unavailable still when no    *)
(* order is left with it.                                                   *)

assignment_step(agent_id) ==
    \/ \E order_id \in 1..MaxOrders :
          FarmerAssignDeliveryAgent_post(Farmer1, order_id, agent_id)
    \/ \E order_ids \in {{1, 2}, {MaxOrders + 1}} :
          AssignDeliveryAgent_post(Admin, agent_id, order_ids, None)

C38_AssignmentOnlyTakesAgents ==
    [][\A agent_id \in {Agent1, Agent2} :
          /\ (assignment_step(agent_id) /\ last'.status = 200)
             => /\ delivery_agents'[agent_id] = "unavailable"
                /\ \A u \in UserIds \ {agent_id} : delivery_agents'[u] = delivery_agents[u]
          /\ \A order_id \in DOMAIN orders :
                (/\ FarmerAssignDeliveryAgent_post(Farmer1, order_id, agent_id)
                 /\ orders[order_id].farmer_id = Farmer1)
                => /\ last'.status = 200
                   /\ orders'[order_id].delivery_agent_id = agent_id
      ]_vars

(* both orders are now with the second agent; the first agent has no      *)
(* order left and is unavailable still                                      *)
C38_Witness ==
    /\ last.op = "farmer_assign" /\ last.status = 200
    /\ Len(orders) = 2
    /\ \A o \in DOMAIN orders : orders[o].delivery_agent_id = Agent2
    /\ \E i \in DOMAIN delivery_assignments : delivery_assignments[i].agent_id = Agent2
    /\ delivery_agents[Agent1] = "unavailable"
    /\ delivery_agents[Agent2] = "unavailable"

-----------------------------------------------------------------------------
(* C39: join_chat with an order id makes the caller a participant of the    *)
(* order's room only when the caller is the order's buyer, its farmer, its  *)
(* assigned delivery agent or a superadmin; from any other connected user   *)
(* it is answered with an error and adds no participant row.                *)
C39_OrderRoomForPartiesOnly ==
    [][\A sid \in ChatSids, order_id \in DOMAIN orders :
          (/\ sid \in DOMAIN active_users
           /\ handle_join_chat(sid, order_id, None)
           /\ ~party_to(caller(sid), order_id))
          => /\ emitted'.event = "error"
             /\ room_participants' = room_participants
             /\ message_rooms' = message_rooms
      ]_vars

====
